---- MODULE Spec2Model ----
(***************************************************************************)
(* Model of the menu widgets of kas (src/src/widget/menu.rs): MenuButton,  *)
(* SubMenu and MenuBar, together with the part of the event Manager they   *)
(* call (pointer grabs and the popup stack).                               *)
(*                                                                         *)
(* One MenuBar holds NumMenus SubMenus, each with a Column of ItemsPer     *)
(* items; one MenuButton holds a popup widget with PopupItems items.       *)
(* Widget ids are numbered so that `id <= child.id()` selects the child's  *)
(* subtree, as the routing code in the send methods requires: children     *)
(* are numbered before their parent.                                       *)
(*                                                                         *)
(* Spec is the menu bar in a window with other widgets, SpecButton the     *)
(* menu button in such a window, SpecPress the bar given press events      *)
(* only, SpecMenus a window holding both menus with one of them disabled.  *)
(* A step is the dispatch of one event (the whole of send and what it      *)
(* calls) or the return to the event loop.                                 *)
(*                                                                         *)
(* SpecCounter is the window of kas-wgpu/examples/counter.rs, SpecSync the *)
(* two windows of kas-wgpu/examples/sync-counter.rs with the Manager's     *)
(* update handles.                                                         *)
(*                                                                         *)
(* SpecWindow is a program holding up to MaxWindows SimpleWindow values    *)
(* (src/src/widget/window.rs), made by new or clone, whose child widget    *)
(* uses up to MaxKeys constraint keys.                                     *)
(* Its actions also ask windows and a MessageBox for a child by index.     *)
(*                                                                         *)
(* SpecFrame is one MenuFrame (src/src/widget/menu/menu_frame.rs) given    *)
(* size rules, a rect and coordinates to find.  SpecCalc is the Calculator *)
(* of kas-wgpu/examples/calculator.rs given key presses, SpecWatch the     *)
(* stopwatch of mygui-gtk/examples/stopwatch.rs with its buttons, its tick *)
(* callback and a clock.                                                   *)
(***************************************************************************)
EXTENDS Integers, Sequences, FiniteSets, TLC

\* ------------------------------------------------------------------ bounds
NumMenus == 2
ItemsPer == 1
PopupItems == 1

\* --------------------------------------------------------------- widget ids
NoId == 0
SubSize == ItemsPer + 2
ItemId(k, j) == (k - 1) * SubSize + j
ListId(k) == (k - 1) * SubSize + ItemsPer + 1
SubId(k) == k * SubSize
BarListId == NumMenus * SubSize + 1
BarId == BarListId + 1
PopupId == BarId + PopupItems + 1
\* the button numbered before its popup
ButtonId_below_popup == PopupId - 1
ButtonId == PopupId + 1
OtherId == ButtonId + 1

Menus == 1 .. NumMenus
BarTree == 1 .. BarId
ButtonTree == (BarId + 1) .. ButtonId
SubIds == {SubId(k) : k \in Menus}

\* the widget tree: the #[widget] fields of MenuBar, SubMenu and MenuButton,
\* and the children of the lists and of the popup
Children(id) ==
    IF id = BarId THEN {BarListId}
    ELSE IF id = BarListId THEN SubIds
    ELSE IF id = ButtonId THEN {PopupId}
    ELSE IF id = PopupId THEN (BarId + 1) .. (PopupId - 1)
    ELSE IF \E k \in Menus : id = SubId(k) THEN {id - 1}
    ELSE IF \E k \in Menus : id = ListId(k) THEN (id - ItemsPer) .. (id - 1)
    ELSE {}

RECURSIVE DescendantsIn(_, _)
DescendantsIn(id, depth) ==
    IF depth = 0 THEN {}
    ELSE Children(id) \cup UNION {DescendantsIn(c, depth - 1) : c \in Children(id)}

\* the trees are four levels deep at most
Descendants(id) == DescendantsIn(id, 4)
MenuWidgets == BarTree \cup ButtonTree
\* the widgets an event passes on its way to each widget
Ancestors == [id \in MenuWidgets |-> {a \in MenuWidgets : id \in Descendants(a)}]

\* WidgetCore::is_ancestor_of for the two top-level menu widgets
BarIsAncestorOf(id) == id \in BarTree
ButtonIsAncestorOf(id) == id \in ButtonTree

\* ------------------------------------------------------------------ events
Sources == {"left", "right"}
is_primary(source) == source = "left"

\* where a coordinate lies, as far as the bar can tell: in its rect or not
BarCoords == {"bar", "else"}
BarRectContains(coord) == coord = "bar"
\* and as far as the button can tell: in its rect, in its popup's rect, in
\* both, or in neither
ButtonCoords == {"button", "popup", "both", "else"}
ButtonRectContains(coord) == coord \in {"button", "both"}
PopupRectContains(coord) == coord \in {"popup", "both"}

Ev(kind, source, id, coord) == [kind |-> kind, source |-> source, id |-> id, coord |-> coord]
Plain(kind) == Ev(kind, "-", NoId, "-")
EvNone == Plain("None")
EvActivate == Plain("Activate")
EvOpenPopup == Plain("OpenPopup")
EvOther == Plain("Other")
PlainEvents == {EvActivate, EvOpenPopup, EvOther}

\* the press events a widget with subtree `tree` can be given; OtherId stands
\* for every widget outside that subtree.  start_id is a WidgetId, cur_id and
\* end_id are Option<WidgetId>
PressEvents(kind, tree, coords) ==
    {Ev(kind, s, i, c) : s \in Sources,
                         i \in tree \cup {OtherId} \cup (IF kind = "PressStart" THEN {} ELSE {NoId}),
                         c \in coords}

\* --------------------------------------------------------------- responses
Resp(kind, ev) == [kind |-> kind, ev |-> ev]
RNone == Resp("None", EvNone)
Unhandled(ev) == Resp("Unhandled", ev)
is_msg(r) == r.kind = "Msg"

\* answers a content widget (menu item, popup content) may give to an event
Answers == {"None", "Msg", "Unhandled", "Close"}
Answer(a, ev) == IF a = "Unhandled" THEN Unhandled(ev) ELSE Resp(a, EvNone)

\* ------------------------------------------------------------------- state
VARIABLES
    sub_popup_id,   \* SubMenu.popup_id of each submenu (NoWin = None)
    bar_opening,    \* MenuBar.opening
    btn_popup_id,   \* MenuButton.popup_id
    btn_opening,    \* MenuButton.opening
    disabled,       \* ids of the widgets for which is_disabled() holds
    grab,           \* Manager: set of pointer grabs
    popups,         \* Manager: popup stack, oldest first
    last,           \* the dispatch just performed: widget, target id, event
    resp,           \* the response it returned
    calls,          \* the Manager and child calls it made, in order
    pre,            \* the widgets' fields and Manager state when it began
    prev,           \* the press, if any, that the dispatch before it started
    entered,        \* how often the dispatch entered MenuBar::handle
    counter,        \* examples/counter.rs: the field `counter`
    display,        \* examples/counter.rs: the text of the Label `display`
    COUNTER,        \* examples/sync-counter.rs: the thread-local COUNTER
    texts,          \* sync-counter: the text of `display` in each window
    registered,     \* Manager: the windows whose widget is registered on the handle
    pending,        \* Manager: the updates triggered and not yet delivered to all
    since_trigger,  \* the windows registered since the last trigger_update
    windows,        \* widget/window.rs: the SimpleWindow values the program holds
    made,           \* how each was made, and whether configure_widgets ran on it
    panic,          \* the message of the panic that ended the program, if any
    frame,          \* widget/menu/menu_frame.rs: the fields of a MenuFrame
    calc,           \* examples/calculator.rs: the Calculator
    calc_display,   \* calculator: the text of the EditBox `display`
    watch,          \* examples/stopwatch.rs: the fields of the stopwatch
    now,            \* stopwatch: the monotonic clock, in milliseconds
    fresh           \* stopwatch: Reset was sent and no Start since

\* the state of the example programs
counterVars == <<counter, display>>
syncVars == <<COUNTER, texts, registered, pending, since_trigger>>
windowVars == <<windows, made, panic>>
frameVars == <<frame>>
calcVars == <<calc, calc_display>>
watchVars == <<watch, now, fresh>>
moreVars == <<frameVars, calcVars, watchVars>>
appVars == <<counterVars, syncVars, windowVars, moreVars>>
menuVars == <<sub_popup_id, bar_opening, btn_popup_id, btn_opening, disabled, grab, popups>>

vars == <<sub_popup_id, bar_opening, btn_popup_id, btn_opening, disabled,
          grab, popups, last, resp, calls, pre, prev, entered, appVars>>

NoWin == 0

\* The handlers are translated as functions on a record `m` of the mutable
\* state they can reach: the widgets' fields, the Manager state, the call
\* log, and the answers the content widgets will give (`oracle`).
Pack(oracle) ==
    [sub_popup_id |-> sub_popup_id, bar_opening |-> bar_opening,
     btn_popup_id |-> btn_popup_id, btn_opening |-> btn_opening,
     disabled |-> disabled, grab |-> grab, popups |-> popups,
     calls |-> <<>>, oracle |-> oracle, entered |-> 0]

Out(m, r) == [m |-> m, r |-> r]
Log(m, entry) == [m EXCEPT !.calls = Append(@, entry)]

\* ----------------------------------------------------------------- Manager
WinsOf(m) == {m.popups[i].win : i \in DOMAIN m.popups}

\* A new WindowId: a token no window on the stack has.  It is named after the
\* popup's parent (the first of parent, parent + OtherId, parent + 2 * OtherId,
\* ... that is free), so that the name does not depend on the history.
FreshWin(m, parent) ==
    LET names == {parent + j * OtherId : j \in 0 .. Len(m.popups)}
    IN  CHOOSE w \in names : w \notin WinsOf(m) /\ \A v \in names : v \notin WinsOf(m) => w <= v

\* Manager::add_popup: push the popup, return its window id (in field `win`)
add_popup(m, id, parent) ==
    LET w == FreshWin(m, parent)
    IN  [m |-> Log([m EXCEPT !.popups = Append(@, [win |-> w, id |-> id, parent |-> parent])],
                   <<"add_popup", w, id, parent>>),
         win |-> w]

RemoveWin(stack, w) == SelectSeq(stack, LAMBDA p : p.win # w)
IsTop(stack, w) == Len(stack) > 0 /\ stack[Len(stack)].win = w

\* Manager::close_window
close_window(m, w) ==
    Log([m EXCEPT !.popups = RemoveWin(@, w)],
        <<"close_window", w, IsTop(m.popups, w)>>)

HasGrab(g, source) == \E x \in g : x.source = source

\* request_grab without the test for an existing grab
request_grab_unchecked(m, id, source) ==
    [m |-> Log([m EXCEPT !.grab = @ \cup
                    {[source |-> source, id |-> id, mode |-> "Grab", depress |-> NoId]}],
               <<"request_grab", id, source, TRUE>>),
     ok |-> TRUE]

\* Manager::request_grab: field `ok` is the returned bool
request_grab(m, id, source) ==
    IF HasGrab(m.grab, source)
    THEN [m |-> Log(m, <<"request_grab", id, source, FALSE>>), ok |-> FALSE]
    ELSE [m |-> Log([m EXCEPT !.grab = @ \cup
                        {[source |-> source, id |-> id, mode |-> "Grab", depress |-> NoId]}],
                    <<"request_grab", id, source, TRUE>>),
          ok |-> TRUE]

\* Manager::set_grab_depress
set_grab_depress(m, source, target) ==
    Log([m EXCEPT !.grab = {IF x.source = source THEN [x EXCEPT !.depress = target] ELSE x
                            : x \in @}],
        <<"set_grab_depress", source, target>>)

\* Manager::set_press_focus
set_press_focus(m, id) == Log(m, <<"set_press_focus", id>>)

\* a content widget's SendEvent::send: it answers as the oracle says
child_send(m, id, ev) ==
    LET a == IF Len(m.oracle) > 0 THEN Head(m.oracle) ELSE "-"
        rest == IF Len(m.oracle) > 0 THEN Tail(m.oracle) ELSE <<>>
    IN  Out(Log([m EXCEPT !.oracle = rest], <<"child_send", id, ev.kind, a>>), Answer(a, ev))

\* -------------------------------------------------------------- MenuButton
MenuButton_open_menu(m) ==
    IF m.btn_popup_id = NoWin
    THEN LET a == add_popup(m, PopupId, ButtonId)
         IN  [a.m EXCEPT !.btn_popup_id = a.win]
    ELSE m

\* a close_menu that forgets the window without closing it
MenuButton_close_menu_forgets(m) == [m EXCEPT !.btn_popup_id = NoWin]

MenuButton_close_menu(m) ==
    IF m.btn_popup_id # NoWin
    THEN [close_window(m, m.btn_popup_id) EXCEPT !.btn_popup_id = NoWin]
    ELSE m

\* the Activate arm written as SubMenu writes it: it only ever opens
MenuButton_Activate_only_opens(m) ==
    Out(IF m.btn_popup_id = NoWin THEN MenuButton_open_menu(m) ELSE m, RNone)

\* the Activate arm of MenuButton::handle
MenuButton_Activate(m) ==
    Out(IF m.btn_popup_id = NoWin THEN MenuButton_open_menu(m) ELSE MenuButton_close_menu(m),
        RNone)

\* the PressStart arm without the test of is_primary
MenuButton_PressStart_any_source(m, event) ==
    IF ButtonIsAncestorOf(event.id)
    THEN LET m1 == request_grab(m, ButtonId, event.source).m
             m2 == set_grab_depress(m1, event.source, event.id)
         IN  Out([m2 EXCEPT !.btn_opening = (m2.btn_popup_id = NoWin)], RNone)
    ELSE Out(IF m.btn_popup_id # NoWin
             THEN [close_window(m, m.btn_popup_id) EXCEPT !.btn_popup_id = NoWin]
             ELSE m,
             Unhandled(EvNone))

\* the PressStart arm, leaving the popup open on a press outside
MenuButton_PressStart_keeps_popup(m, event) ==
    IF ButtonIsAncestorOf(event.id)
    THEN IF is_primary(event.source)
         THEN LET m1 == request_grab(m, ButtonId, event.source).m
                  m2 == set_grab_depress(m1, event.source, event.id)
              IN  Out([m2 EXCEPT !.btn_opening = (m2.btn_popup_id = NoWin)], RNone)
         ELSE Out(m, RNone)
    ELSE Out(m, Unhandled(EvNone))

\* the PressStart arm
MenuButton_PressStart(m, event) ==
    IF ButtonIsAncestorOf(event.id)
    THEN IF is_primary(event.source)
         THEN LET m1 == request_grab(m, ButtonId, event.source).m
                  m2 == set_grab_depress(m1, event.source, event.id)
              IN  Out([m2 EXCEPT !.btn_opening = (m2.btn_popup_id = NoWin)], RNone)
         ELSE Out(m, RNone)
    ELSE Out(IF m.btn_popup_id # NoWin
             THEN [close_window(m, m.btn_popup_id) EXCEPT !.btn_popup_id = NoWin]
             ELSE m,
             Unhandled(EvNone))

\* the PressMove arm
MenuButton_PressMove(m, event) ==
    IF event.id = ButtonId
    THEN Out(set_grab_depress(MenuButton_open_menu(m), event.source, event.id), RNone)
    ELSE Out(m, RNone)

\* the PressEnd arm without the test of `opening`
MenuButton_PressEnd_ignores_opening(m, event) ==
    IF ButtonRectContains(event.coord)
    THEN IF event.id = ButtonId
         THEN Out(MenuButton_open_menu(m), RNone)
         ELSE Out(MenuButton_close_menu(m), RNone)
    ELSE IF m.btn_popup_id # NoWin /\ PopupRectContains(event.coord)
         THEN IF event.id # NoId
              THEN LET o == child_send(m, event.id, EvActivate)
                   IN  Out(MenuButton_close_menu(o.m), o.r)
              ELSE Out(m, RNone)
         ELSE Out(m, RNone)

\* the PressEnd arm closing the menu only when the content sent a message,
\* as the send methods do
MenuButton_PressEnd_closes_on_msg(m, event) ==
    IF ButtonRectContains(event.coord)
    THEN IF event.id = ButtonId /\ m.btn_opening
         THEN Out(MenuButton_open_menu(m), RNone)
         ELSE Out(MenuButton_close_menu(m), RNone)
    ELSE IF m.btn_popup_id # NoWin /\ PopupRectContains(event.coord)
         THEN IF event.id # NoId
              THEN LET o == child_send(m, event.id, EvActivate)
                   IN  Out(IF is_msg(o.r) THEN MenuButton_close_menu(o.m) ELSE o.m, o.r)
              ELSE Out(m, RNone)
         ELSE Out(m, RNone)

\* the PressEnd arm
MenuButton_PressEnd(m, event) ==
    IF ButtonRectContains(event.coord)
    THEN IF event.id = ButtonId /\ m.btn_opening
         THEN Out(MenuButton_open_menu(m), RNone)
         ELSE Out(MenuButton_close_menu(m), RNone)
    ELSE IF m.btn_popup_id # NoWin /\ PopupRectContains(event.coord)
         THEN IF event.id # NoId
              THEN LET o == child_send(m, event.id, EvActivate)
                   IN  Out(MenuButton_close_menu(o.m), o.r)
              ELSE Out(m, RNone)
         ELSE Out(m, RNone)

MenuButton_handle(m, event) ==
    CASE event.kind = "Activate" -> MenuButton_Activate(m)
      [] event.kind = "PressStart" -> MenuButton_PressStart(m, event)
      [] event.kind = "PressMove" -> MenuButton_PressMove(m, event)
      [] event.kind = "PressEnd" -> MenuButton_PressEnd(m, event)
      [] OTHER -> Out(m, Unhandled(event))

\* send without the test of is_disabled
MenuButton_send_though_disabled(m, id, event) ==
    IF id <= PopupId
    THEN LET o == child_send(m, id, event)
         IN  Out(IF is_msg(o.r) THEN MenuButton_close_menu(o.m) ELSE o.m, o.r)
    ELSE MenuButton_handle(m, event)

\* send without the test of the popup's response
MenuButton_send_keeps_open(m, id, event) ==
    IF ButtonId \in m.disabled
    THEN Out(m, Unhandled(event))
    ELSE IF id <= PopupId
         THEN child_send(m, id, event)
         ELSE MenuButton_handle(m, event)

\* Manager::handle_generic: the menu widgets are not activated by a press, so
\* the generic handler hands every event to the widget's own handle
MenuButton_send(m, id, event) ==
    IF ButtonId \in m.disabled
    THEN Out(m, Unhandled(event))
    ELSE IF id <= PopupId
         THEN LET o == child_send(m, id, event)
              IN  Out(IF is_msg(o.r) THEN MenuButton_close_menu(o.m) ELSE o.m, o.r)
         ELSE MenuButton_handle(m, event)

\* ----------------------------------------------------------------- SubMenu
menu_is_open(m, k) == m.sub_popup_id[k] # NoWin

SubMenu_open_menu(m, k) ==
    IF m.sub_popup_id[k] = NoWin
    THEN LET a == add_popup(m, ListId(k), SubId(k))
         IN  [a.m EXCEPT !.sub_popup_id[k] = a.win]
    ELSE m

SubMenu_close_menu(m, k) ==
    IF m.sub_popup_id[k] # NoWin
    THEN [close_window(m, m.sub_popup_id[k]) EXCEPT !.sub_popup_id[k] = NoWin]
    ELSE m

SubMenu_handle(m, k, event) ==
    IF event.kind \in {"Activate", "OpenPopup"}
    THEN Out(IF m.sub_popup_id[k] = NoWin THEN SubMenu_open_menu(m, k) ELSE m, RNone)
    ELSE Out(m, Unhandled(event))

\* Column::send of a submenu's list: an item answers for itself; the list
\* itself claims nothing
Column_send(m, k, id, event) ==
    IF id = ListId(k) THEN Out(m, Unhandled(event)) ELSE child_send(m, id, event)

\* a send that keeps the events addressed to its list for itself
SubMenu_send_keeps_list(m, k, id, event) ==
    IF SubId(k) \in m.disabled
    THEN Out(m, Unhandled(event))
    ELSE IF id < ListId(k)
         THEN LET o == Column_send(m, k, id, event)
              IN  Out(IF is_msg(o.r) THEN SubMenu_close_menu(o.m, k) ELSE o.m, o.r)
         ELSE SubMenu_handle(m, k, event)

SubMenu_send(m, k, id, event) ==
    IF SubId(k) \in m.disabled
    THEN Out(m, Unhandled(event))
    ELSE IF id <= ListId(k)
         THEN LET o == Column_send(m, k, id, event)
              IN  Out(IF is_msg(o.r) THEN SubMenu_close_menu(o.m, k) ELSE o.m, o.r)
         ELSE SubMenu_handle(m, k, event)

\* List::send of the bar: the first child whose id is not below the target
List_send(m, id, event) ==
    IF \E k \in Menus : id <= SubId(k)
    THEN LET k == CHOOSE k \in Menus : id <= SubId(k) /\ \A j \in Menus : id <= SubId(j) => k <= j
         IN  SubMenu_send(m, k, id, event)
    ELSE Out(m, Unhandled(event))

\* ----------------------------------------------------------------- MenuBar
RECURSIVE CloseFrom(_, _)
\* for i in k..bar.len() { bar[i].close_menu(mgr) }
CloseFrom(m, k) == IF k > NumMenus THEN m ELSE CloseFrom(SubMenu_close_menu(m, k), k + 1)

RECURSIVE CloseMatching(_, _, _)
\* for i in k..bar.len() { if bar[i].id() == id { bar[i].close_menu(mgr) } }
CloseMatching(m, k, id) ==
    IF k > NumMenus THEN m
    ELSE CloseMatching(IF SubId(k) = id THEN SubMenu_close_menu(m, k) ELSE m, k + 1, id)

RECURSIVE OpenMatching(_, _, _)
\* the loop of the PressStart arm: stops at the first submenu with the id
OpenMatching(m, k, id) ==
    IF k > NumMenus THEN m
    ELSE IF SubId(k) = id
         THEN IF ~menu_is_open(m, k)
              THEN set_press_focus(SubMenu_open_menu([m EXCEPT !.bar_opening = TRUE], k), BarId)
              ELSE m
         ELSE OpenMatching(m, k + 1, id)

RECURSIVE MenuBar_handle(_, _), MenuBar_send(_, _, _)
RECURSIVE MenuBar_PressStart(_, _), MenuBar_PressMove(_, _), MenuBar_PressEnd(_, _)

\* the PressStart arm of MenuBar::handle
MenuBar_PressStart(m, event) ==
    IF BarIsAncestorOf(event.id)
    THEN IF is_primary(event.source)
         THEN LET g == request_grab(m, BarId, event.source)
              IN  IF g.ok
                  THEN LET m1 == set_grab_depress(g.m, event.source, event.id)
                           m2 == [m1 EXCEPT !.bar_opening = FALSE]
                       IN  IF BarRectContains(event.coord)
                           THEN Out(OpenMatching(m2, 1, event.id), RNone)
                           ELSE MenuBar_send(m2, event.id, EvOpenPopup)
                  ELSE Out(g.m, RNone)
         ELSE Out(m, RNone)
    ELSE Out(CloseFrom(m, 1), Unhandled(EvNone))

\* a PressMove arm that sends on the press event it was given
MenuBar_PressMove_resends(m, event) ==
    IF event.id # NoId /\ BarIsAncestorOf(event.id)
    THEN MenuBar_send(set_grab_depress(m, event.source, event.id), event.id,
                      [event EXCEPT !.kind = "PressEnd"])
    ELSE Out(m, RNone)

\* the PressMove arm
MenuBar_PressMove(m, event) ==
    IF event.id # NoId /\ BarIsAncestorOf(event.id)
    THEN MenuBar_send(set_grab_depress(m, event.source, event.id), event.id, EvOpenPopup)
    ELSE Out(m, RNone)

\* a PressEnd arm that closes nothing when the release is elsewhere
MenuBar_PressEnd_elsewhere_keeps(m, event) ==
    IF event.id # NoId /\ BarIsAncestorOf(event.id)
    THEN IF BarRectContains(event.coord)
         THEN Out(IF ~m.bar_opening THEN CloseMatching(m, 1, event.id) ELSE m, RNone)
         ELSE MenuBar_send(m, event.id, EvActivate)
    ELSE Out(m, RNone)

\* a PressEnd arm that does not look at `opening`
MenuBar_PressEnd_ignores_opening(m, event) ==
    IF event.id # NoId /\ BarIsAncestorOf(event.id)
    THEN IF BarRectContains(event.coord)
         THEN Out(CloseMatching(m, 1, event.id), RNone)
         ELSE MenuBar_send(m, event.id, EvActivate)
    ELSE Out(CloseFrom(m, 1), RNone)

\* the PressEnd arm
MenuBar_PressEnd(m, event) ==
    IF event.id # NoId /\ BarIsAncestorOf(event.id)
    THEN IF BarRectContains(event.coord)
         THEN Out(IF ~m.bar_opening THEN CloseMatching(m, 1, event.id) ELSE m, RNone)
         ELSE MenuBar_send(m, event.id, EvActivate)
    ELSE Out(CloseFrom(m, 1), RNone)

MenuBar_handle(m, event) ==
    LET m1 == [m EXCEPT !.entered = @ + 1]
    IN  CASE event.kind = "PressStart" -> MenuBar_PressStart(m1, event)
          [] event.kind = "PressMove" -> MenuBar_PressMove(m1, event)
          [] event.kind = "PressEnd" -> MenuBar_PressEnd(m1, event)
          [] OTHER -> Out(m1, Unhandled(event))

MenuBar_send(m, id, event) ==
    IF BarId \in m.disabled
    THEN Out(m, Unhandled(event))
    ELSE IF id <= BarListId
         THEN LET o == List_send(m, id, event)
              IN  IF o.r.kind = "Unhandled" THEN MenuBar_handle(o.m, o.r.ev) ELSE o
         ELSE MenuBar_handle(m, event)

\* ------------------------------------------------ widget/menu/menu_frame.rs
\* geom: Coord and Size are pairs, a Rect a position and a size
XY(x, y) == [x |-> x, y |-> y]
ZERO == XY(0, 0)
Rect(pos, size) == [pos |-> pos, size |-> size]
\* Rect::contains: the position is inside, the far edges are outside
Rect_contains(rect, coord) ==
    /\ coord.x >= rect.pos.x /\ coord.x < rect.pos.x + rect.size.x
    /\ coord.y >= rect.pos.y /\ coord.y < rect.pos.y + rect.size.y

\* MenuFrame::new; `inner` is the rect the inner widget was given
MenuFrame_new == [rect |-> Rect(ZERO, ZERO), m0 |-> ZERO, m1 |-> ZERO, inner |-> Rect(ZERO, ZERO)]

\* --------------------------------------------- examples/calculator.rs: data
\* f64 values are kept exactly, as fractions n / d in lowest terms with
\* d > 0; 1 / 0 and -1 / 0 are the infinities and 0 / 0 is NaN
F(n, d) == [n |-> n, d |-> d]
NaN == F(0, 0)
Ok(x) == [ok |-> TRUE, x |-> x]
\* Err(ParseFloatError)
Err == [ok |-> FALSE, x |-> F(0, 1)]

\* Calculator::new
Calculator_new == [state |-> Ok(F(0, 1)), op |-> "None", line_buf |-> <<>>]

\* ---------------------------------------------- examples/stopwatch.rs: data
\* Option<Instant>: an Instant is the milliseconds on the clock
NoInstant == [some |-> FALSE, at |-> 0]
SomeInstant(t) == [some |-> TRUE, at |-> t]
\* the fields of the stopwatch widget as make_widget! initialises them; a
\* Duration is a number of milliseconds, the text of `display` and dur_buf
\* are sequences of characters
Stopwatch_new ==
    [saved |-> 0, start |-> NoInstant, dur_buf |-> <<>>,
     display |-> <<"0", ".", "0", "0", "0">>]

\* ------------------------------------------------------- the event loop
\* examples/sync-counter.rs: the two windows main adds, window.clone() and
\* window
SyncWindows == {"clone", "window"}

\* widget/window.rs: the program holds up to MaxWindows SimpleWindow values;
\* the child widget of a window uses up to MaxKeys keys of the solver
MaxWindows == 3
MaxKeys == 2
WindowSlots == 1 .. MaxWindows
\* a SimpleWindow: the edit variables its solver knows, key_end, and the
\* number of keys of its child w
NoWindow == [live |-> FALSE, solver |-> {}, key_end |-> 0, w |-> 0]
NotMade == [by |-> "-", configured |-> FALSE, of_configured |-> FALSE]

Snap ==
    [sub_popup_id |-> sub_popup_id, bar_opening |-> bar_opening,
     btn_popup_id |-> btn_popup_id, btn_opening |-> btn_opening,
     grab |-> grab, popups |-> popups,
     counter |-> counter, display |-> display,
     COUNTER |-> COUNTER, texts |-> texts, registered |-> registered, pending |-> pending]

\* what is remembered of a dispatch once the next one runs: whether it was a
\* press of the primary source starting on a menu header or on the menu
\* button, on which, whether that menu was open before it, and whether the
\* grab was granted
NoPress == [w |-> "none", id |-> NoId, open |-> FALSE, granted |-> FALSE]
Granted(id) ==
    \E i \in DOMAIN calls : calls[i] = <<"request_grab", id, last.ev.source, TRUE>>
Summary ==
    IF last.ev.kind = "PressStart" /\ is_primary(last.ev.source) /\ last.id = last.ev.id
    THEN IF last.w = "bar" /\ last.ev.id \in SubIds /\ BarRectContains(last.ev.coord)
         THEN [w |-> "bar", id |-> last.ev.id,
               open |-> \E k \in Menus : SubId(k) = last.ev.id /\ pre.sub_popup_id[k] # NoWin,
               granted |-> Granted(BarId)]
         ELSE IF last.w = "button" /\ last.ev.id = ButtonId
              THEN [w |-> "button", id |-> ButtonId, open |-> pre.btn_popup_id # NoWin,
                    granted |-> Granted(ButtonId)]
              ELSE NoPress
    ELSE NoPress

Idle == [w |-> "none", id |-> NoId, ev |-> EvNone]

Start(choices) ==
    /\ sub_popup_id = [k \in Menus |-> NoWin]
    /\ bar_opening = FALSE
    /\ btn_popup_id = NoWin
    /\ btn_opening = FALSE
    /\ disabled \in choices
    /\ grab = {}
    /\ popups = <<>>
    /\ last = Idle
    /\ resp = RNone
    /\ calls = <<>>
    /\ counter = 0
    /\ display = <<"0">>
    /\ COUNTER = 0
    /\ texts = [w \in SyncWindows |-> <<"0">>]
    /\ registered = {}
    /\ pending = <<>>
    /\ since_trigger = {}
    /\ windows = [s \in WindowSlots |-> NoWindow]
    /\ made = [s \in WindowSlots |-> NotMade]
    /\ panic = ""
    /\ frame = MenuFrame_new
    /\ calc = Calculator_new
    /\ calc_display = <<"0">>
    /\ watch = Stopwatch_new
    /\ now = 0
    /\ fresh = FALSE
    /\ entered = 0
    /\ pre = Snap
    /\ prev = NoPress

\* all menus closed; a widget may have been disabled by the application
Init == Start({{}, {BarId}, {SubId(1)}})
InitButton == Start({{}, {ButtonId}})

\* a Manager that leaves the release of the grab to the widget
Release_left_to_widget(g, event) == g

\* the Manager releases the source's grab once its PressEnd was dispatched
Release(g, event) ==
    IF event.kind = "PressEnd" THEN {x \in g : x.source # event.source} ELSE g

Commit(o, w, id, event) ==
    /\ sub_popup_id' = o.m.sub_popup_id
    /\ bar_opening' = o.m.bar_opening
    /\ btn_popup_id' = o.m.btn_popup_id
    /\ btn_opening' = o.m.btn_opening
    /\ grab' = Release(o.m.grab, event)
    /\ popups' = o.m.popups
    /\ last' = [w |-> w, id |-> id, ev |-> event]
    /\ resp' = o.r
    /\ calls' = o.m.calls
    /\ entered' = o.m.entered
    /\ pre' = Snap
    /\ UNCHANGED <<disabled, prev, appVars>>

\* One event is dispatched at a time and runs to completion (last = Idle
\* while the loop waits).  The content widgets answer freely: a dispatch is
\* run with every sequence of answers that its consultations of content
\* widgets use up exactly.
Starved(o) == \E i \in DOMAIN o.m.calls : o.m.calls[i][1] = "child_send" /\ o.m.calls[i][4] = "-"

BarDispatch(id, event) ==
    LET o0 == MenuBar_send(Pack(<<>>), id, event)
    IN  IF ~Starved(o0) THEN Commit(o0, "bar", id, event)
        ELSE \E a \in Answers :
            LET o1 == MenuBar_send(Pack(<<a>>), id, event)
            IN  IF ~Starved(o1) THEN Commit(o1, "bar", id, event)
                ELSE \E b \in Answers :
                        Commit(MenuBar_send(Pack(<<a, b>>), id, event), "bar", id, event)

ButtonDispatch(id, event) ==
    LET o0 == MenuButton_send(Pack(<<>>), id, event)
    IN  IF ~Starved(o0) THEN Commit(o0, "button", id, event)
        ELSE \E a \in Answers :
                Commit(MenuButton_send(Pack(<<a>>), id, event), "button", id, event)

GrabbedBy(source, id) == \E x \in grab : x.source = source /\ x.id = id

\* a press starts: sent to the widget under the pointer when that is in the
\* bar's subtree, or handed to the bar itself (as parent of a popup)
BarPressStart ==
    /\ last = Idle
    /\ \E event \in PressEvents("PressStart", BarTree, BarCoords), id \in BarTree :
        /\ id = event.id \/ id = BarId
        /\ BarDispatch(id, event)

\* moves and the release of a grabbed source go to the grabbing widget
BarPressMove ==
    /\ last = Idle
    /\ \E event \in PressEvents("PressMove", BarTree, BarCoords) :
        /\ GrabbedBy(event.source, BarId)
        /\ BarDispatch(BarId, event)

BarPressEnd ==
    /\ last = Idle
    /\ \E event \in PressEvents("PressEnd", BarTree, BarCoords) :
        /\ GrabbedBy(event.source, BarId)
        /\ BarDispatch(BarId, event)

\* Activate, OpenPopup and any other event, addressed to a widget of the bar
BarPlain ==
    /\ last = Idle
    /\ \E event \in PlainEvents, id \in BarTree :
        BarDispatch(id, event)

ButtonPressStart ==
    /\ last = Idle
    /\ \E event \in PressEvents("PressStart", ButtonTree, ButtonCoords), id \in ButtonTree :
        /\ id = event.id \/ id = ButtonId
        /\ ButtonDispatch(id, event)

ButtonPressMove ==
    /\ last = Idle
    /\ \E event \in PressEvents("PressMove", ButtonTree, ButtonCoords) :
        /\ GrabbedBy(event.source, ButtonId)
        /\ ButtonDispatch(ButtonId, event)

ButtonPressEnd ==
    /\ last = Idle
    /\ \E event \in PressEvents("PressEnd", ButtonTree, ButtonCoords) :
        /\ GrabbedBy(event.source, ButtonId)
        /\ ButtonDispatch(ButtonId, event)

ButtonPlain ==
    /\ last = Idle
    /\ \E event \in PlainEvents, id \in ButtonTree :
        ButtonDispatch(id, event)

\* a widget outside the menus takes the grab of a source on a press, and
\* loses it on the release
OtherPressStart ==
    /\ last = Idle
    /\ \E source \in Sources :
        LET g == request_grab(Pack(<<>>), OtherId, source)
        IN  Commit(Out(g.m, RNone), "other", OtherId, Ev("PressStart", source, OtherId, "else"))

OtherPressEnd ==
    /\ last = Idle
    /\ \E source \in Sources :
        /\ GrabbedBy(source, OtherId)
        /\ Commit(Out(Pack(<<>>), RNone), "other", OtherId, Ev("PressEnd", source, OtherId, "else"))

\* the response is taken, and the loop waits for the next event
Return ==
    /\ last # Idle
    /\ last' = Idle
    /\ resp' = RNone
    /\ calls' = <<>>
    /\ prev' = Summary
    /\ entered' = 0
    /\ pre' = Snap
    /\ UNCHANGED <<menuVars, appVars>>

BarNext ==
    \/ BarPressStart
    \/ BarPressMove
    \/ BarPressEnd
    \/ BarPlain
    \/ OtherPressStart
    \/ OtherPressEnd
    \/ Return

ButtonNext ==
    \/ ButtonPressStart
    \/ ButtonPressMove
    \/ ButtonPressEnd
    \/ ButtonPlain
    \/ OtherPressStart
    \/ OtherPressEnd
    \/ Return

\* the menu bar in a window with other widgets
Spec == Init /\ [][BarNext]_vars
\* the menu button in a window with other widgets
SpecButton == InitButton /\ [][ButtonNext]_vars

\* a window holding both menus, one of which the application has disabled
InitMenus == Start({{BarId}, {ButtonId}})

MenusNext ==
    \/ BarPressStart
    \/ BarPressMove
    \/ BarPressEnd
    \/ BarPlain
    \/ ButtonPressStart
    \/ ButtonPressMove
    \/ ButtonPressEnd
    \/ ButtonPlain
    \/ OtherPressStart
    \/ OtherPressEnd
    \/ Return

SpecMenus == InitMenus /\ [][MenusNext]_vars

\* only press gestures are dispatched to the bar
PressNext ==
    \/ BarPressStart
    \/ BarPressMove
    \/ BarPressEnd
    \/ Return

SpecPress == Start({{}}) /\ [][PressNext]_vars

\* ------------------------------------------------- examples/counter.rs
\* usize, with its width
UsizeBits == 6
UsizeMax == 2 ^ UsizeBits - 1
\* the addition that wraps at the width of usize
wrapping_add(x, y) == (x + y) % (UsizeMax + 1)
saturating_add(x, y) == IF x + y > UsizeMax THEN UsizeMax ELSE x + y
saturating_sub(x, y) == IF x < y THEN 0 ELSE x - y

\* usize::to_string: the decimal digits, most significant first
Digits == <<"0", "1", "2", "3", "4", "5", "6", "7", "8", "9">>
RECURSIVE to_string(_)
to_string(n) ==
    IF n < 10 THEN <<Digits[n + 1]>>
    ELSE Append(to_string(n \div 10), Digits[(n % 10) + 1])

\* the widgets of the window, numbered as those of the menus are
DisplayId == 1
DecrId == 2
IncrId == 3
ButtonsId == 4
CounterId == 5
CounterIds == DisplayId .. CounterId

Msg(msg) == [kind |-> "Msg", ev |-> EvNone, msg |-> msg]

\* the state handle_button can reach, and the calls made on it
CounterPack == [counter |-> counter, display |-> display, calls |-> <<>>]
set_text(c, text) ==
    [c EXCEPT !.display = text, !.calls = Append(@, <<"set_text", DisplayId, text>>)]

\* TextButton: Activate yields the button's message
TextButton_handle(c, msg, event) ==
    IF event.kind = "Activate" THEN Out(c, Msg(msg)) ELSE Out(c, Unhandled(event))

\* the row of the two buttons: #[handler(msg = Message)]
Buttons_send(c, id, event) ==
    IF id = DecrId THEN TextButton_handle(c, "Decr", event)
    ELSE IF id = IncrId THEN TextButton_handle(c, "Incr", event)
    ELSE Out(c, Unhandled(event))

\* handle_button with the two arms exchanged
handle_button_exchanged(c, msg) ==
    LET n == IF msg = "Decr" THEN saturating_add(c.counter, 1) ELSE saturating_sub(c.counter, 1)
    IN  Out(set_text([c EXCEPT !.counter = n], to_string(n)), RNone)

handle_button(c, msg) ==
    LET n == IF msg = "Decr" THEN saturating_sub(c.counter, 1) ELSE saturating_add(c.counter, 1)
    IN  Out(set_text([c EXCEPT !.counter = n], to_string(n)), RNone)

\* the column: a Label, which claims nothing, and the row, whose messages go
\* to handle_button
Counter_send(c, id, event) ==
    IF id <= DisplayId THEN Out(c, Unhandled(event))
    ELSE IF id <= ButtonsId
         THEN LET o == Buttons_send(c, id, event)
              IN  IF is_msg(o.r)
                  THEN handle_button([o.m EXCEPT !.calls = Append(@, <<"msg", ButtonsId, o.r.msg>>)],
                                     o.r.msg)
                  ELSE o
         ELSE Out(c, Unhandled(event))

\* one event is dispatched to a widget of the counter window
CounterDispatch ==
    /\ last = Idle
    /\ \E id \in CounterIds, event \in {EvActivate, EvOther} :
        LET o == Counter_send(CounterPack, id, event)
        IN  /\ counter' = o.m.counter
            /\ display' = o.m.display
            /\ last' = [w |-> "counter", id |-> id, ev |-> event]
            /\ resp' = o.r
            /\ calls' = o.m.calls
            /\ pre' = Snap
            /\ UNCHANGED <<menuVars, syncVars, windowVars, moreVars, prev, entered>>

CounterNext ==
    \/ CounterDispatch
    \/ Return

SpecCounter == Start({{}}) /\ [][CounterNext]_vars

\* -------------------------------------------- examples/sync-counter.rs
\* the presses dispatched keep COUNTER within -SyncMax .. SyncMax
SyncMax == 2

\* i32::to_string
i32_to_string(n) == IF n < 0 THEN <<"-">> \o to_string(-n) ELSE to_string(n)

\* the one UpdateHandle, and the event that delivers an update of it
SyncHandle == 1
EvHandleUpdate == Plain("HandleUpdate")

SyncPack ==
    [COUNTER |-> COUNTER, texts |-> texts, registered |-> registered,
     pending |-> pending, since_trigger |-> since_trigger, calls |-> <<>>]

\* Manager::update_on_handle replaying the handle's update to the newcomer
update_on_handle_replays(s, handle, w) ==
    Log([s EXCEPT !.registered = @ \cup {w}, !.since_trigger = @ \cup {w},
                  !.pending = Append(@, [handle |-> handle, payload |-> 0, todo |-> {w}])],
        <<"update_on_handle", handle, w>>)

\* Manager::update_on_handle: the widget of window w is registered
update_on_handle(s, handle, w) ==
    Log([s EXCEPT !.registered = @ \cup {w}, !.since_trigger = @ \cup {w}],
        <<"update_on_handle", handle, w>>)

\* Manager::trigger_update: delivery to every registered widget is scheduled
trigger_update(s, handle, payload) ==
    Log([s EXCEPT !.pending = Append(@, [handle |-> handle, payload |-> payload,
                                         todo |-> s.registered]),
                  !.since_trigger = {}],
        <<"trigger_update", handle, payload>>)

\* configure
Sync_configure(s, w) == update_on_handle(s, SyncHandle, w)

Sync_set_text(s, w, text) ==
    Log([s EXCEPT !.texts[w] = text], <<"set_text", w, text>>)

\* handle, taking HandleUpdate for an event like any other
Sync_handle_ignores_update(s, w, event) == Out(s, Unhandled(event))

\* handle
Sync_handle(s, w, event) ==
    IF event.kind = "HandleUpdate"
    THEN Out(Sync_set_text(s, w, i32_to_string(s.COUNTER)), RNone)
    ELSE Out(s, Unhandled(event))

\* handle_button, setting the label of its own window itself
Sync_handle_button_sets_text(s, w, msg) ==
    LET c == s.COUNTER + (IF msg = "Decr" THEN -1 ELSE 1)
        t == Sync_set_text([s EXCEPT !.COUNTER = c], w, i32_to_string(c))
    IN  Out(trigger_update(t, SyncHandle, 0), RNone)

\* handle_button
Sync_handle_button(s, w, msg) ==
    LET c == s.COUNTER + (IF msg = "Decr" THEN -1 ELSE 1)
    IN  Out(trigger_update([s EXCEPT !.COUNTER = c], SyncHandle, 0), RNone)

\* the column of a window: the Label claims nothing, the messages of the row
\* go to handle_button, and what is addressed to the column goes to handle
Sync_send(s, w, id, event) ==
    IF id <= DisplayId THEN Out(s, Unhandled(event))
    ELSE IF id <= ButtonsId
         THEN LET o == Buttons_send(s, id, event)
              IN  IF is_msg(o.r)
                  THEN Sync_handle_button(Log(o.m, <<"msg", ButtonsId, o.r.msg>>), w, o.r.msg)
                  ELSE o
         ELSE Sync_handle(s, w, event)

SyncCommit(o, w, id, event) ==
    /\ COUNTER' = o.m.COUNTER
    /\ texts' = o.m.texts
    /\ registered' = o.m.registered
    /\ pending' = o.m.pending
    /\ since_trigger' = o.m.since_trigger
    /\ last' = [w |-> w, id |-> id, ev |-> event]
    /\ resp' = o.r
    /\ calls' = o.m.calls
    /\ pre' = Snap
    /\ UNCHANGED <<menuVars, counterVars, windowVars, moreVars, prev, entered>>

\* toolkit.add: the window's widgets are configured.  main adds both windows
\* before the loop runs; a window can also be added while it runs.
SyncAdd ==
    /\ last = Idle
    /\ pending = <<>>
    /\ \E w \in SyncWindows \ registered :
        SyncCommit(Out(Sync_configure(SyncPack, w), RNone), w, CounterId, Plain("Configure"))

\* an event from outside is dispatched to a widget of a window, once the
\* updates triggered before it are delivered
SyncDispatch ==
    /\ last = Idle
    /\ pending = <<>>
    /\ \E w \in registered, id \in CounterIds, event \in {EvActivate, EvOther} :
        LET o == Sync_send(SyncPack, w, id, event)
        IN  /\ o.m.COUNTER \in -SyncMax .. SyncMax
            /\ SyncCommit(o, w, id, event)

\* the Manager delivers the oldest pending update to one of the widgets it
\* is still owed to, in no particular order
SyncDeliver ==
    /\ last = Idle
    /\ pending # <<>>
    /\ \E w \in Head(pending).todo :
        LET rest == Head(pending).todo \ {w}
            left == IF rest = {} THEN Tail(pending)
                    ELSE <<[Head(pending) EXCEPT !.todo = rest]>> \o Tail(pending)
            o == Sync_send([SyncPack EXCEPT !.pending = left], w, CounterId, EvHandleUpdate)
        IN  SyncCommit(o, w, CounterId, EvHandleUpdate)

SyncNext ==
    \/ SyncAdd
    \/ SyncDispatch
    \/ SyncDeliver
    \/ Return

SpecSync == Start({{}}) /\ [][SyncNext]_vars

\* ------------------------------------------------------ widget/window.rs
\* cw::Solver, as far as the window uses it: the edit variables added since
\* the last reset; suggest_value fails for a variable that is not one
v0 == 0
v1 == 1
Solver_new == {}
Solver_reset(solver) == {}
add_edit_variable(solver, v) == [ok |-> v \notin solver, solver |-> solver \cup {v}]
suggest_value(solver, v) == [ok |-> v \in solver, solver |-> solver]

\* Layout of the child: both passes number the child's keys from `key` on
init_constraints(w, key) == key + w
apply_constraints(w, key) == key + w

SimpleWindow_new(w) == [live |-> TRUE, solver |-> Solver_new, key_end |-> 0, w |-> w]
SimpleWindow_clone(self) == [live |-> TRUE, solver |-> Solver_new, key_end |-> 0, w |-> self.w]

\* the result of a method: the window after it and the panic message, ""
\* when the method returned
Done(self) == [self |-> self, panic |-> ""]
Panic(self, message) == [self |-> self, panic |-> message]

configure_widgets(self) ==
    LET s0 == Solver_reset(self.solver)
        key_end == init_constraints(self.w, 0)
        a0 == add_edit_variable(s0, v0)
        a1 == add_edit_variable(a0.solver, v1)
        apply_key == apply_constraints(self.w, 0)
        self1 == [self EXCEPT !.solver = a1.solver, !.key_end = key_end]
    IN  IF ~a0.ok THEN Panic([self EXCEPT !.solver = s0, !.key_end = key_end], "unwrap")
        ELSE IF ~a1.ok THEN Panic([self EXCEPT !.solver = a0.solver, !.key_end = key_end], "unwrap")
        ELSE IF key_end # apply_key THEN Panic(self1, "assert_eq")
        ELSE Done(self1)

\* resize without the unwraps of what suggest_value returns
resize_ignoring_errors(self) ==
    IF self.key_end # apply_constraints(self.w, 0)
    THEN Panic(self, "resize called without configure_widgets")
    ELSE Done(self)

resize(self) ==
    IF ~suggest_value(self.solver, v0).ok THEN Panic(self, "unwrap")
    ELSE IF ~suggest_value(self.solver, v1).ok THEN Panic(self, "unwrap")
    ELSE IF self.key_end # apply_constraints(self.w, 0)
         THEN Panic(self, "resize called without configure_widgets")
         ELSE Done(self)

\* what the child may answer to an event: a value of its response type R
ChildResponses ==
    {[type |-> "NoResponse", value |-> "None"],
     [type |-> "Response", value |-> "None"],
     [type |-> "Response", value |-> "Close"]}
\* action_close
action_close == [type |-> "Response", value |-> "Close"]
\* event::Response::from
Response_from(r) ==
    IF r.type = "Response" THEN Resp(r.value, EvNone) ELSE RNone

\* handle dropping the child's response
SimpleWindow_handle_drops(self, r) == RNone

\* handle, the child answering r
SimpleWindow_handle(self, r) == Response_from(r)

\* Option<&Widget>: the child returned, named by the keys it uses
OptNone == [some |-> FALSE, w |-> 0]
Some(w) == [some |-> TRUE, w |-> w]
Got(value) == [value |-> value, panic |-> ""]
Unimplemented == [value |-> OptNone, panic |-> "not implemented"]

\* impl Widget for SimpleWindow
SimpleWindow_len(self) == 1
SimpleWindow_get(self, index) == IF index = 0 THEN Got(Some(self.w)) ELSE Got(OptNone)
SimpleWindow_get_mut(self, index) == IF index = 0 THEN Got(Some(self.w)) ELSE Got(OptNone)

\* impl Widget for MessageBox
MessageBox_len(self) == 0
MessageBox_get(self, index) == Unimplemented
MessageBox_get_mut(self, index) == Unimplemented

\* a call through &dyn Widget
Widget_len(type, self) ==
    IF type = "SimpleWindow" THEN SimpleWindow_len(self) ELSE MessageBox_len(self)
Widget_get(type, self, method, index) ==
    CASE type = "SimpleWindow" /\ method = "get" -> SimpleWindow_get(self, index)
      [] type = "SimpleWindow" /\ method = "get_mut" -> SimpleWindow_get_mut(self, index)
      [] type = "MessageBox" /\ method = "get" -> MessageBox_get(self, index)
      [] type = "MessageBox" /\ method = "get_mut" -> MessageBox_get_mut(self, index)

\* impl WidgetChildren for Box<dyn Widget>: self.as_ref().len(), .get(index),
\* self.as_mut().get_mut(index)
Box_len(type, self) == Widget_len(type, self)
Box_get(type, self, method, index) == Widget_get(type, self, method, index)

\* the indices a caller asks for
MaxIndex == 2
\* the MessageBox the program holds: its fields play no part here
TheMessageBox == [live |-> TRUE]

\* one method is called on a window value (or new makes one), and the
\* program ends when it panics
WindowCommit(slot, method, o, r, log) ==
    /\ windows' = [windows EXCEPT ![slot] = o.self]
    /\ panic' = o.panic
    /\ last' = [w |-> method, id |-> slot, ev |-> EvNone]
    /\ resp' = r
    /\ calls' = log
    /\ pre' = Snap
    /\ UNCHANGED <<menuVars, counterVars, syncVars, moreVars, prev, entered>>

WindowNew ==
    /\ last = Idle
    /\ \E slot \in WindowSlots, w \in 0 .. MaxKeys :
        /\ ~windows[slot].live
        /\ made' = [made EXCEPT ![slot] = [by |-> "new", configured |-> FALSE, of_configured |-> FALSE]]
        /\ WindowCommit(slot, "new", Done(SimpleWindow_new(w)), RNone, <<>>)

WindowClone ==
    /\ last = Idle
    /\ \E from \in WindowSlots, slot \in WindowSlots :
        /\ windows[from].live
        /\ ~windows[slot].live
        /\ made' = [made EXCEPT ![slot] = [by |-> "clone", configured |-> FALSE,
                                         of_configured |-> made[from].configured]]
        /\ WindowCommit(slot, "clone", Done(SimpleWindow_clone(windows[from])), RNone,
                        << <<"clone", from>> >>)

WindowConfigure ==
    /\ last = Idle
    /\ \E slot \in WindowSlots :
        /\ windows[slot].live
        /\ made' = [made EXCEPT ![slot].configured = TRUE]
        /\ WindowCommit(slot, "configure_widgets", configure_widgets(windows[slot]), RNone, <<>>)

WindowResize ==
    /\ last = Idle
    /\ \E slot \in WindowSlots :
        /\ windows[slot].live
        /\ UNCHANGED made
        /\ WindowCommit(slot, "resize", resize(windows[slot]), RNone, <<>>)

WindowHandle ==
    /\ last = Idle
    /\ \E slot \in WindowSlots, r \in ChildResponses :
        /\ windows[slot].live
        /\ UNCHANGED made
        /\ WindowCommit(slot, "handle", Done(windows[slot]),
                        SimpleWindow_handle(windows[slot], r),
                        << <<"w.handle", r.type, r.value>> >>)

\* a child of a window is asked for, directly or through a Box
ChildAccess(type, self, id) ==
    \E method \in {"get", "get_mut"}, index \in 0 .. MaxIndex, boxed \in BOOLEAN :
        LET g == IF boxed THEN Box_get(type, self, method, index)
                 ELSE Widget_get(type, self, method, index)
            n == IF boxed THEN Box_len(type, self) ELSE Widget_len(type, self)
        IN  /\ panic' = g.panic
            /\ last' = [w |-> method, id |-> id, ev |-> EvNone]
            /\ resp' = RNone
            /\ calls' = << <<method, type, index, n, g.value>> >>
            /\ pre' = Snap
            /\ UNCHANGED <<menuVars, counterVars, syncVars, moreVars, prev, entered, windows, made>>

WindowGet ==
    /\ last = Idle
    /\ \E slot \in WindowSlots :
        /\ windows[slot].live
        /\ ChildAccess("SimpleWindow", windows[slot], slot)

MessageBoxGet ==
    /\ last = Idle
    /\ ChildAccess("MessageBox", TheMessageBox, 0)

WindowReturn ==
    /\ panic = ""
    /\ Return

WindowNext ==
    \/ WindowNew
    \/ WindowClone
    \/ WindowConfigure
    \/ WindowResize
    \/ WindowHandle
    \/ WindowGet
    \/ MessageBoxGet
    \/ WindowReturn

SpecWindow == Start({{}}) /\ [][WindowNext]_vars

\* ------------------------------------------------ MenuFrame: the methods
\* coordinates run over 0 .. MaxCoord on both axes, the theme's frame and
\* the child's margins over 0 .. MaxFrame; sizes are u32, here of SizeBits
\* bits
MaxCoord == 2
MaxFrame == 1
SizeBits == 3
Coords == {XY(x, y) : x \in 0 .. MaxCoord, y \in 0 .. MaxCoord}
FrameSizes == {XY(x, y) : x \in 0 .. MaxFrame, y \in 0 .. MaxFrame}
Rects == {Rect(pos, size) : pos \in {ZERO, XY(1, 1)}, size \in Coords}
\* the margins the inner widget's size rules may have, before and after it
ChildMargins == {<<0, 0>>, <<0, MaxFrame>>}

\* the widgets: the frame, its inner widget and a child of that
FrameLeafId == 1
FrameInnerId == 2
FrameId == 3
NoneId == NoId
\* Option<WidgetId>
FoundIds == {NoneId, FrameLeafId, FrameInnerId}

\* MenuFrame::size_rules: the margins of the frame on the axis asked for
size_rules(self, vertical, size, m) ==
    IF ~vertical
    THEN [self EXCEPT !.m0.x = size.x + m[1], !.m1.x = size.x + m[2]]
    ELSE [self EXCEPT !.m0.y = size.y + m[1], !.m1.y = size.y + m[2]]

\* u32 subtraction: it panics in a build with overflow checks and wraps in
\* one without
u32_sub(a, b, checked) ==
    IF a >= b THEN [ok |-> TRUE, v |-> a - b]
    ELSE [ok |-> ~checked, v |-> (a - b) % (2 ^ SizeBits)]

\* MenuFrame::set_rect
set_rect(self, rect, checked) ==
    LET w == u32_sub(rect.size.x, self.m0.x + self.m1.x, checked)
        h == u32_sub(rect.size.y, self.m0.y + self.m1.y, checked)
        inner == Rect(XY(rect.pos.x + self.m0.x, rect.pos.y + self.m0.y), XY(w.v, h.v))
    IN  IF w.ok /\ h.ok
        THEN Done([self EXCEPT !.rect = rect, !.inner = inner])
        ELSE Panic([self EXCEPT !.rect = rect], "attempt to subtract with overflow")

\* the inner widget's find_id: an id of its own subtree for a coordinate in
\* its rect, as it chooses, and None elsewhere
inner_find_id(self, coord, choice) ==
    IF Rect_contains(self.inner, coord) THEN choice ELSE NoneId

\* find_id that asks the inner widget first
find_id_inner_first(self, coord, choice) ==
    LET found == inner_find_id(self, coord, choice)
    IN  IF found # NoneId THEN found
        ELSE IF ~Rect_contains(self.rect, coord) THEN NoneId ELSE FrameId

\* MenuFrame::find_id
find_id(self, coord, choice) ==
    IF ~Rect_contains(self.rect, coord)
    THEN NoneId
    ELSE LET found == inner_find_id(self, coord, choice)
         IN  IF found # NoneId THEN found ELSE FrameId

FrameCommit(method, o, log) ==
    /\ frame' = o.self
    /\ panic' = o.panic
    /\ last' = [w |-> method, id |-> FrameId, ev |-> EvNone]
    /\ resp' = RNone
    /\ calls' = log
    /\ pre' = Snap
    /\ UNCHANGED <<menuVars, counterVars, syncVars, windows, made, calcVars, watchVars, prev, entered>>

FrameSizeRules ==
    /\ last = Idle
    /\ \E vertical \in BOOLEAN, size \in FrameSizes, m \in ChildMargins :
        FrameCommit("size_rules", Done(size_rules(frame, vertical, size, m)), <<>>)

FrameSetRect ==
    /\ last = Idle
    /\ \E rect \in Rects, checked \in BOOLEAN :
        FrameCommit("set_rect", set_rect(frame, rect, checked), <<>>)

FrameFindId ==
    /\ last = Idle
    /\ \E coord \in Coords, choice \in FoundIds :
        FrameCommit("find_id", Done(frame),
                    << <<"find_id", coord, inner_find_id(frame, coord, choice),
                         find_id(frame, coord, choice)>> >>)

FrameReturn ==
    /\ panic = ""
    /\ Return

FrameNext ==
    \/ FrameSizeRules
    \/ FrameSetRect
    \/ FrameFindId
    \/ FrameReturn

SpecFrame == Start({{}}) /\ [][FrameNext]_vars

\* ------------------------------------------------ examples/calculator.rs
\* the line buffer holds up to MaxLine characters; values are followed while
\* numerator and denominator stay within MaxNum and MaxDen
MaxLine == 2
MaxNum == 11
MaxDen == 10
Chars == {"0", "1", "."}
Keys == {"Clear", "Divide", "Multiply", "Subtract", "Add", "Equals"} \cup Chars

Abs(n) == IF n < 0 THEN -n ELSE n
Sgn(n) == IF n < 0 THEN -1 ELSE 1
RECURSIVE Gcd(_, _)
Gcd(a, b) == IF b = 0 THEN a ELSE Gcd(b, a % b)
\* the fraction n / d, d >= 0, in lowest terms
Norm(n, d) ==
    IF d = 0 THEN F(IF n > 0 THEN 1 ELSE IF n < 0 THEN -1 ELSE 0, 0)
    ELSE LET g == Gcd(Abs(n), d) IN F(n \div g, d \div g)
IsNaN(a) == a.d = 0 /\ a.n = 0
IsInf(a) == a.d = 0 /\ a.n # 0

\* x + y, x - y, x * y and x / y of f64: none fails
f64_add(a, b) ==
    IF IsNaN(a) \/ IsNaN(b) THEN NaN
    ELSE IF IsInf(a) /\ IsInf(b) THEN (IF a.n = b.n THEN a ELSE NaN)
    ELSE IF IsInf(a) THEN a
    ELSE IF IsInf(b) THEN b
    ELSE Norm(a.n * b.d + b.n * a.d, a.d * b.d)
f64_sub(a, b) == f64_add(a, F(-b.n, b.d))
f64_mul(a, b) == Norm(a.n * b.n, a.d * b.d)
f64_div(a, b) ==
    IF IsNaN(b) THEN NaN ELSE Norm(a.n * b.d * Sgn(b.n), a.d * Abs(b.n))

\* f64::from_str of a line of digits and points: the digits before and
\* after the one point, if any; a line without a digit or with two points
\* is no float literal
Digit(c) == IF c = "1" THEN 1 ELSE 0
RECURSIVE Points(_), Whole(_), Places(_)
Points(line) ==
    IF line = <<>> THEN 0 ELSE Points(Tail(line)) + (IF Head(line) = "." THEN 1 ELSE 0)
\* the digits of the line read as one whole number
Whole(line) ==
    IF line = <<>> THEN 0
    ELSE LET c == line[Len(line)]
             rest == SubSeq(line, 1, Len(line) - 1)
         IN  IF c = "." THEN Whole(rest) ELSE 10 * Whole(rest) + Digit(c)
\* the number of digits after the point
Places(line) ==
    IF line = <<>> \/ Points(line) = 0 THEN 0
    ELSE IF line[Len(line)] = "." THEN 0
    ELSE 1 + Places(SubSeq(line, 1, Len(line) - 1))
from_str(line) ==
    IF Points(line) > 1 \/ Points(line) = Len(line)
    THEN Err
    ELSE Ok(Norm(Whole(line), 10 ^ Places(line)))

\* the pending operation not being looked at
do_op_keeps_op(self, next_op) ==
    IF self.line_buf = <<>>
    THEN Done([self EXCEPT !.op = next_op])
    ELSE LET line == from_str(self.line_buf)
             s1 == [self EXCEPT !.line_buf = <<>>]
         IN  Done([s1 EXCEPT !.state = line])

\* the binary operation applied without the test for Op::None
do_op_always_binary(self, next_op) ==
    IF self.line_buf = <<>>
    THEN Done([self EXCEPT !.op = next_op])
    ELSE LET line == from_str(self.line_buf)
             s1 == [self EXCEPT !.line_buf = <<>>]
         IN  IF s1.state.ok
             THEN IF line.ok
                  THEN CASE s1.op = "Divide" -> Done([s1 EXCEPT !.state = Ok(f64_div(s1.state.x, line.x)), !.op = next_op])
                         [] s1.op = "Multiply" -> Done([s1 EXCEPT !.state = Ok(f64_mul(s1.state.x, line.x)), !.op = next_op])
                         [] s1.op = "Subtract" -> Done([s1 EXCEPT !.state = Ok(f64_sub(s1.state.x, line.x)), !.op = next_op])
                         [] s1.op = "Add" -> Done([s1 EXCEPT !.state = Ok(f64_add(s1.state.x, line.x)), !.op = next_op])
                         [] OTHER -> Panic(s1, "unexpected op")
                  ELSE Done([s1 EXCEPT !.state = line, !.op = next_op])
             ELSE Done([s1 EXCEPT !.op = next_op])

\* an Err state replaced by the line's value
do_op_forgets_error(self, next_op) ==
    IF self.line_buf = <<>>
    THEN Done([self EXCEPT !.op = next_op])
    ELSE LET line == from_str(self.line_buf)
             s1 == [self EXCEPT !.line_buf = <<>>]
         IN  IF s1.op = "None" \/ ~s1.state.ok
             THEN Done([s1 EXCEPT !.state = line, !.op = next_op])
             ELSE IF line.ok
                  THEN CASE s1.op = "Divide" -> Done([s1 EXCEPT !.state = Ok(f64_div(s1.state.x, line.x)), !.op = next_op])
                         [] s1.op = "Multiply" -> Done([s1 EXCEPT !.state = Ok(f64_mul(s1.state.x, line.x)), !.op = next_op])
                         [] s1.op = "Subtract" -> Done([s1 EXCEPT !.state = Ok(f64_sub(s1.state.x, line.x)), !.op = next_op])
                         [] s1.op = "Add" -> Done([s1 EXCEPT !.state = Ok(f64_add(s1.state.x, line.x)), !.op = next_op])
                         [] OTHER -> Panic(s1, "unexpected op")
                  ELSE Done([s1 EXCEPT !.state = line, !.op = next_op])

\* Calculator::do_op
do_op(self, next_op) ==
    IF self.line_buf = <<>>
    THEN Done([self EXCEPT !.op = next_op])
    ELSE LET line == from_str(self.line_buf)
             s1 == [self EXCEPT !.line_buf = <<>>]
         IN  IF s1.op = "None"
             THEN Done([s1 EXCEPT !.state = line, !.op = next_op])
             ELSE IF s1.state.ok
                  THEN IF line.ok
                       THEN CASE s1.op = "Divide" -> Done([s1 EXCEPT !.state = Ok(f64_div(s1.state.x, line.x)), !.op = next_op])
                              [] s1.op = "Multiply" -> Done([s1 EXCEPT !.state = Ok(f64_mul(s1.state.x, line.x)), !.op = next_op])
                              [] s1.op = "Subtract" -> Done([s1 EXCEPT !.state = Ok(f64_sub(s1.state.x, line.x)), !.op = next_op])
                              [] s1.op = "Add" -> Done([s1 EXCEPT !.state = Ok(f64_add(s1.state.x, line.x)), !.op = next_op])
                              [] OTHER -> Panic(s1, "unexpected op")
                       ELSE Done([s1 EXCEPT !.state = line, !.op = next_op])
                  ELSE Done([s1 EXCEPT !.op = next_op])

push_char(self, c) == Done([self EXCEPT !.line_buf = Append(@, c)])

\* Calculator::handle: every arm returns true
Calculator_handle(self, key) ==
    CASE key = "Clear" -> Done(Calculator_new)
      [] key = "Divide" -> do_op(self, "Divide")
      [] key = "Multiply" -> do_op(self, "Multiply")
      [] key = "Subtract" -> do_op(self, "Subtract")
      [] key = "Add" -> do_op(self, "Add")
      [] key = "Equals" -> do_op(self, "None")
      [] OTHER -> push_char(self, key)

\* Calculator::display: the three lines of the multi-line display
state_str(self) == IF self.state.ok THEN <<"f64", self.state.x>> ELSE <<"invalid float literal">>
OpSign(op) ==
    CASE op = "None" -> "" [] op = "Add" -> "+" [] op = "Subtract" -> "-"
      [] op = "Multiply" -> "x" [] op = "Divide" -> "/"
Calculator_display(self) == <<state_str(self), OpSign(self.op), self.line_buf>>

\* the values followed
InRange(self) ==
    /\ Len(self.line_buf) <= MaxLine
    /\ self.state.ok => \/ self.state.x.d = 0
                        \/ Abs(self.state.x.n) <= MaxNum /\ self.state.x.d <= MaxDen

\* a button of the calculator is pressed: handle_button of the window
CalcKey ==
    /\ last = Idle
    /\ \E key \in Keys :
        LET o == Calculator_handle(calc, key)
        IN  /\ InRange(o.self)
            /\ calc' = o.self
            /\ calc_display' = IF o.panic = "" THEN Calculator_display(o.self) ELSE calc_display
            /\ panic' = o.panic
            /\ last' = [w |-> "calculator", id |-> NoId, ev |-> EvNone]
            /\ resp' = RNone
            /\ calls' = << <<"key", key, calc>> >>
            /\ pre' = Snap
            /\ UNCHANGED <<menuVars, counterVars, syncVars, windows, made, frameVars, watchVars, prev, entered>>

CalcReturn ==
    /\ panic = ""
    /\ Return

CalcNext ==
    \/ CalcKey
    \/ CalcReturn

SpecCalc == Start({{}}) /\ [][CalcNext]_vars

\* ------------------------------------------------- examples/stopwatch.rs
\* the clock advances by the timeout of the tick callback or by a second,
\* and is followed over MaxAdvances such steps
MaxAdvances == 4
TickMs == 16
ClockSteps == {TickMs, 1000}
\* the number of steps that brought the clock to t
Advances(t) == (t \div 1000) + ((t % 1000) \div TickMs)
Controls == {"None", "Reset", "Start"}

\* format_args!("{}.{:03}", dur.as_secs(), dur.subsec_millis())
as_secs(dur) == dur \div 1000
subsec_millis(dur) == dur % 1000
Pad3(n) ==
    IF n < 10 THEN <<"0", "0">> \o to_string(n)
    ELSE IF n < 100 THEN <<"0">> \o to_string(n)
    ELSE to_string(n)
FormatDur(dur) == to_string(as_secs(dur)) \o <<".">> \o Pad3(subsec_millis(dur))

\* Reset that leaves the stopwatch running
Stopwatch_handle_button_keeps_start(self, clock, msg) ==
    CASE msg = "None" -> self
      [] msg = "Reset" -> [self EXCEPT !.saved = 0, !.display = <<"0", ".", "0", "0", "0">>]
      [] msg = "Start" ->
            IF self.start.some
            THEN [self EXCEPT !.saved = @ + (clock - self.start.at), !.start = NoInstant]
            ELSE [self EXCEPT !.start = SomeInstant(clock)]

\* handle_button of the stopwatch; clock is what Instant::now() returns
Stopwatch_handle_button(self, clock, msg) ==
    CASE msg = "None" -> self
      [] msg = "Reset" ->
            [self EXCEPT !.saved = 0, !.start = NoInstant,
                         !.display = <<"0", ".", "0", "0", "0">>]
      [] msg = "Start" ->
            IF self.start.some
            THEN [self EXCEPT !.saved = @ + (clock - self.start.at), !.start = NoInstant]
            ELSE [self EXCEPT !.start = SomeInstant(clock)]

\* on_tick of the stopwatch
Stopwatch_on_tick(self, clock) ==
    IF self.start.some
    THEN LET dur == self.saved + (clock - self.start.at)
         IN  [self EXCEPT !.dur_buf = FormatDur(dur), !.display = FormatDur(dur)]
    ELSE self

\* one call into the stopwatch
WatchCommit(method, msg, w) ==
    /\ watch' = w
    /\ fresh' = IF method = "handle_button" /\ msg = "Reset" THEN TRUE
                ELSE IF method = "handle_button" /\ msg = "Start" THEN FALSE
                ELSE fresh
    /\ last' = [w |-> "stopwatch", id |-> NoId, ev |-> EvNone]
    /\ resp' = RNone
    /\ calls' = << <<method, msg, watch>> >>
    /\ pre' = Snap
    /\ UNCHANGED <<menuVars, counterVars, syncVars, windowVars, frameVars, calcVars, now, prev, entered>>

\* a button of the stopwatch sends its message
WatchButton ==
    /\ last = Idle
    /\ \E msg \in Controls : WatchCommit("handle_button", msg, Stopwatch_handle_button(watch, now, msg))

\* the TimeoutMs(16) callback of the window runs
WatchTick ==
    /\ last = Idle
    /\ WatchCommit("on_tick", "None", Stopwatch_on_tick(watch, now))

\* time passes on the monotonic clock
WatchClock ==
    /\ last = Idle
    /\ \E d \in ClockSteps :
        /\ Advances(now + d) <= MaxAdvances
        /\ now' = now + d
    /\ UNCHANGED <<menuVars, counterVars, syncVars, windowVars, frameVars, calcVars, watch, fresh,
                   last, resp, calls, pre, prev, entered>>

WatchNext ==
    \/ WatchButton
    \/ WatchTick
    \/ WatchClock
    \/ Return

SpecWatch == Start({{}}) /\ [][WatchNext]_vars

\* ================================================================== claims
OpenMenus == {k \in Menus : sub_popup_id[k] # NoWin}
WasOpen(k) == pre.sub_popup_id[k] # NoWin
BarRan == last.w = "bar" /\ BarId \notin disabled
ButtonRan == last.w = "button" /\ ButtonId \notin disabled
Called(entry) == \E i \in DOMAIN calls : calls[i] = entry
CallsOf(name) == {i \in DOMAIN calls : calls[i][1] = name}
HasPopupOf(stack, parent) == \E i \in DOMAIN stack : stack[i].parent = parent

\* C1: in every state reached by press events dispatched to the bar, at most
\* one submenu of the bar has an open popup.
C1_MenuExclusivity == Cardinality(OpenMenus) <= 1

\* C2: with submenu A open and B closed, one primary PressStart on B's header
\* (inside the bar, grab granted) leaves A closed, B open and one popup on the
\* stack.
C2_MenuBarSwitch ==
    \A a \in Menus, b \in Menus :
        ( /\ a # b
          /\ disabled = {}
          /\ BarRan
          /\ last.ev.kind = "PressStart"
          /\ is_primary(last.ev.source)
          /\ last.ev.id = SubId(b)
          /\ BarRectContains(last.ev.coord)
          /\ Called(<<"request_grab", BarId, last.ev.source, TRUE>>)
          /\ WasOpen(a)
          /\ ~WasOpen(b) )
        => /\ sub_popup_id[a] = NoWin
           /\ sub_popup_id[b] # NoWin
           /\ Len(popups) = 1

\* C3: a PressMove over the header of a closed submenu opens it and closes
\* every other submenu of the bar in the same dispatch.
C3_PressMoveSwitches ==
    \A b \in Menus :
        ( /\ disabled = {}
          /\ BarRan
          /\ last.ev.kind = "PressMove"
          /\ last.ev.id = SubId(b)
          /\ ~WasOpen(b) )
        => /\ sub_popup_id[b] # NoWin
           /\ \A k \in Menus \ {b} : sub_popup_id[k] = NoWin

\* C4: each source has at most one grab; request_grab answers false and
\* changes nothing when the source is grabbed, and answers true and installs
\* the grab for the requesting widget when it is not.
C4_GrabExclusivity ==
    /\ \A s \in Sources : Cardinality({x \in grab : x.source = s}) <= 1
    /\ \A i \in CallsOf("request_grab") :
          LET id == calls[i][2]
              source == calls[i][3]
              ok == calls[i][4]
          IN  /\ ok = ~HasGrab(pre.grab, source)
              /\ ~ok => grab = pre.grab
              /\ ok => \E x \in grab : x.source = source /\ x.id = id /\ x.mode = "Grab"

\* a request for a grabbed source was refused
C4_Witness ==
    /\ \E i \in CallsOf("request_grab") : calls[i][4] = FALSE
    /\ grab # {}

\* C5: an Unhandled response carries the very event that was dispatched.
C5_UnhandledRoundTrip ==
    (disabled = {} /\ last.w \in {"bar", "button"} /\ resp.kind = "Unhandled")
    => resp.ev = last.ev

ButtonPopup(w) == [win |-> w, id |-> PopupId, parent |-> ButtonId]
TwiceActivated ==
    MenuButton_send(MenuButton_send(Pack(<<>>), ButtonId, EvActivate).m, ButtonId, EvActivate).m

\* C6: Activate handled by a closed MenuButton pushes exactly one popup (the
\* popup child, parent the button) and records its window id; handled by an
\* open one it closes that window and clears popup_id; two Activates in a
\* row on a closed button restore the popup stack and the closed state.
C6_ActivateToggles ==
    /\ (ButtonRan /\ last.id = ButtonId /\ last.ev = EvActivate)
       => IF pre.btn_popup_id = NoWin
          THEN /\ btn_popup_id # NoWin
               /\ popups = Append(pre.popups, ButtonPopup(btn_popup_id))
               /\ \A i \in DOMAIN pre.popups : pre.popups[i].win # btn_popup_id
          ELSE /\ btn_popup_id = NoWin
               /\ popups = RemoveWin(pre.popups, pre.btn_popup_id)
               /\ ~HasPopupOf(popups, ButtonId)
    /\ (last = Idle /\ ButtonId \notin disabled /\ btn_popup_id = NoWin)
       => /\ TwiceActivated.popups = popups
          /\ TwiceActivated.btn_popup_id = NoWin

\* Activate has closed an open menu button
C6_Witness ==
    /\ ButtonRan /\ last.id = ButtonId /\ last.ev = EvActivate
    /\ pre.btn_popup_id # NoWin
    /\ btn_popup_id = NoWin

\* C7: a SubMenu that handles Activate with its popup open ends closed, and
\* one that handles it with its popup closed ends open.
C7_SubMenuActivateToggles ==
    \A k \in Menus :
        (disabled = {} /\ BarRan /\ last.id = SubId(k) /\ last.ev = EvActivate)
        => IF WasOpen(k) THEN sub_popup_id[k] = NoWin ELSE sub_popup_id[k] # NoWin

PressOnButton(kind) ==
    /\ ButtonRan
    /\ last.id = ButtonId
    /\ last.ev.kind = kind
    /\ last.ev.id = ButtonId

\* C8: a primary PressStart on the button pushes nothing: it requests the
\* grab and sets `opening` when the menu is closed.  A PressEnd on the button
\* directly after it leaves a menu that was closed open, with exactly one
\* popup pushed, and a menu that was open closed.
C8_ClickToOpen ==
    /\ (PressOnButton("PressStart") /\ is_primary(last.ev.source))
       => /\ popups = pre.popups
          /\ btn_popup_id = pre.btn_popup_id
          /\ btn_opening = (pre.btn_popup_id = NoWin)
          /\ \E ok \in BOOLEAN : calls[1] = <<"request_grab", ButtonId, last.ev.source, ok>>
    /\ (PressOnButton("PressEnd") /\ ButtonRectContains(last.ev.coord) /\ prev.w = "button")
       => IF prev.open
          THEN btn_popup_id = NoWin /\ ~HasPopupOf(popups, ButtonId)
          ELSE /\ btn_popup_id # NoWin
               /\ popups = Append(pre.popups, ButtonPopup(btn_popup_id))

\* a click on the closed button has opened its menu
C8_Witness ==
    /\ PressOnButton("PressEnd") /\ ButtonRectContains(last.ev.coord)
    /\ prev.w = "button" /\ ~prev.open
    /\ btn_popup_id # NoWin

ReleasedOverPopup ==
    /\ ButtonRan
    /\ last.id = ButtonId
    /\ last.ev.kind = "PressEnd"
    /\ last.ev.coord = "popup"
    /\ last.ev.id # NoId
    /\ pre.btn_popup_id # NoWin

\* C9: a PressEnd over the popup of an open MenuButton (outside the button)
\* with end_id set sends Activate to exactly that id through the popup, then
\* closes the menu whatever the answer, and returns the answer unchanged.
C9_ReleaseOverPopup ==
    ReleasedOverPopup
    => /\ Cardinality(CallsOf("child_send")) = 1
       /\ \E a \in Answers :
            /\ calls[1] = <<"child_send", last.ev.id, "Activate", a>>
            /\ resp = Answer(a, EvActivate)
       /\ btn_popup_id = NoWin
       /\ popups = RemoveWin(pre.popups, pre.btn_popup_id)

\* the content did not answer with a message, and the menu was closed
C9_Witness ==
    /\ ReleasedOverPopup
    /\ resp.kind = "None"
    /\ btn_popup_id = NoWin

\* C10: a PressEnd over the content of the bar's open submenu (outside the
\* bar) forwards Activate to the hit child and leaves the submenu closed,
\* whatever the child answers.
C10_BarReleaseOverContent ==
    \A k \in Menus, j \in 1 .. ItemsPer :
        ( /\ disabled = {}
          /\ BarRan
          /\ last.ev.kind = "PressEnd"
          /\ last.ev.id = ItemId(k, j)
          /\ ~BarRectContains(last.ev.coord)
          /\ WasOpen(k) )
        => /\ \E a \in Answers : Called(<<"child_send", ItemId(k, j), "Activate", a>>)
           /\ sub_popup_id[k] = NoWin

\* the release was neither over the button nor over a widget of the popup
ReleasedElsewhere ==
    /\ ~ButtonRectContains(last.ev.coord)
    /\ ~PopupRectContains(last.ev.coord) \/ last.ev.id = NoId

\* C11: a PressEnd handled by an open MenuButton whose coordinate is neither
\* in the button's rect nor on a widget of the popup leaves the popup closed.
C11_ReleaseElsewhereCloses ==
    ( /\ ButtonRan
      /\ last.id = ButtonId
      /\ last.ev.kind = "PressEnd"
      /\ pre.btn_popup_id # NoWin
      /\ ReleasedElsewhere )
    => btn_popup_id = NoWin

\* a PressStart given to the widget itself, its start_id outside the subtree
PressOutside(id) ==
    /\ last.id = id
    /\ last.ev.kind = "PressStart"
    /\ last.ev.id = OtherId

\* C12: after a MenuButton or a MenuBar handles a PressStart whose start_id is
\* outside its subtree, none of its popups is open (popup_id cleared, no
\* window of it on the stack) and the response is Unhandled.
C12_PressOutsideCloses ==
    /\ (ButtonRan /\ PressOutside(ButtonId))
       => /\ btn_popup_id = NoWin
          /\ ~HasPopupOf(popups, ButtonId)
          /\ resp.kind = "Unhandled"
    /\ (BarRan /\ PressOutside(BarId))
       => /\ \A k \in Menus : sub_popup_id[k] = NoWin /\ ~HasPopupOf(popups, SubId(k))
          /\ resp.kind = "Unhandled"

\* the press outside found a popup open and closed it
C12_Witness ==
    /\ PressOutside(ButtonId)
    /\ ButtonRan
    /\ pre.btn_popup_id # NoWin
    /\ btn_popup_id = NoWin
    /\ resp.kind = "Unhandled"

\* the ids routed to the popup child of submenu k, and the events sent there
ListRange(k) == {id \in BarTree : id <= ListId(k) /\ (k > 1 => id > SubId(k - 1))}
PopupRange == {id \in ButtonTree : id <= PopupId}
SentEvents(id) == PlainEvents \cup {Ev("PressStart", "left", id, "else")}
ChildAnswered(a) == \E i \in CallsOf("child_send") : calls[i][4] = a

\* what the child answers: the list of a submenu claims nothing for itself
ListAnswer(k, id, a, ev) == IF id = ListId(k) THEN Unhandled(ev) ELSE Answer(a, ev)

\* C13: when MenuButton::send or SubMenu::send forwards an event to its popup
\* child and the child answers with a message, the widget's popup is closed
\* and that message is the response; on a None, Unhandled or Close answer the
\* widget's state and the popup stack are as before, and the answer is the
\* response.  No dispatch in which a content widget answered with a message
\* returns anything but a message.
C13_MsgClosesMenu ==
    /\ (last = Idle /\ ButtonId \notin disabled)
       => \A id \in PopupRange : \A ev \in SentEvents(id), a \in Answers :
            LET o == MenuButton_send(Pack(<<a>>), id, ev)
            IN  /\ o.r = Answer(a, ev)
                /\ IF a = "Msg"
                   THEN o.m.btn_popup_id = NoWin /\ ~HasPopupOf(o.m.popups, ButtonId)
                   ELSE o.m.btn_popup_id = btn_popup_id /\ o.m.popups = popups
    /\ (last = Idle)
       => \A k \in Menus : \A id \in ListRange(k) : \A ev \in SentEvents(id), a \in Answers :
            SubId(k) \notin disabled =>
            LET o == SubMenu_send(Pack(<<a>>), k, id, ev)
                r == ListAnswer(k, id, a, ev)
            IN  /\ o.r = r
                /\ IF is_msg(r)
                   THEN o.m.sub_popup_id[k] = NoWin /\ ~HasPopupOf(o.m.popups, SubId(k))
                   ELSE o.m.sub_popup_id = sub_popup_id /\ o.m.popups = popups
    /\ ((BarRan \/ ButtonRan) /\ ChildAnswered("Msg")) => is_msg(resp)

\* an item of an open submenu answered with a message: the submenu is closed
\* and the message is the response of the dispatch
C13_Witness ==
    /\ BarRan
    /\ ChildAnswered("Msg")
    /\ is_msg(resp)
    /\ \E k \in Menus : last.id \in ListRange(k) /\ WasOpen(k) /\ sub_popup_id[k] = NoWin

\* the dispatch asked for a grab of its press source and was refused, the
\* source being grabbed by a widget other than `id`
GrabRefused(id) ==
    /\ last.ev.kind = "PressStart"
    /\ Called(<<"request_grab", id, last.ev.source, FALSE>>)
    /\ \E x \in pre.grab : x.source = last.ev.source /\ x.id # id

\* C14: when request_grab is refused for a PressStart inside a MenuButton or
\* a MenuBar, the handler calls no set_grab_depress, keeps its `opening` flag
\* and opens no popup: the grabs, with owner and depress target, are as before.
C14_GrabResultChecked ==
    /\ (ButtonRan /\ GrabRefused(ButtonId))
       => /\ CallsOf("set_grab_depress") = {}
          /\ btn_opening = pre.btn_opening
          /\ popups = pre.popups
          /\ grab = pre.grab
    /\ (BarRan /\ GrabRefused(BarId))
       => /\ CallsOf("set_grab_depress") = {}
          /\ bar_opening = pre.bar_opening
          /\ popups = pre.popups
          /\ grab = pre.grab

Subtree(id) == {id} \cup Descendants(id)
\* the same, as a table
SubtreeOf == [id \in MenuWidgets |-> Subtree(id)]
Least(S) == CHOOSE x \in S : \A y \in S : x <= y
Greatest(S) == CHOOSE x \in S : \A y \in S : y <= x

\* sibling subtrees occupy disjoint id ranges, increasing with the sibling
SiblingsDisjoint ==
    \A a \in MenuWidgets : \A c \in Children(a), d \in Children(a) :
        c < d => Greatest(Subtree(c)) < Least(Subtree(d))

DescendantsAreBelow == \A a \in MenuWidgets : \A b \in Descendants(a) : b < a

\* the widgets a send method of menu.rs hands an event to by its own id
SelfHandled == {BarId, BarListId, ButtonId} \cup SubIds \cup {ListId(k) : k \in Menus}

PrePack ==
    [sub_popup_id |-> pre.sub_popup_id, bar_opening |-> pre.bar_opening,
     btn_popup_id |-> pre.btn_popup_id, btn_opening |-> pre.btn_opening,
     disabled |-> disabled, grab |-> pre.grab, popups |-> pre.popups,
     calls |-> <<>>, oracle |-> <<>>, entered |-> 0]

\* the child the event was forwarded to answered Unhandled
ChildMissed == calls # <<>> /\ calls[1][1] = "child_send" /\ calls[1][4] = "Unhandled"

\* C16: when MenuButton, SubMenu or MenuBar forwards an event to its child and
\* the child answers Unhandled(e), the container handles e itself: the
\* dispatch ends as the container's own handle ends on e.
C16_BubbleOnMiss ==
    /\ (ButtonRan /\ last.id \in PopupRange /\ ChildMissed)
       => LET o == MenuButton_handle(PrePack, last.ev)
          IN  /\ resp = o.r
              /\ btn_popup_id = o.m.btn_popup_id
              /\ btn_opening = o.m.btn_opening
              /\ popups = o.m.popups
    /\ \A k \in Menus :
         ( /\ BarRan
           /\ SubId(k) \notin disabled
           /\ last.id \in ListRange(k)
           /\ last.ev \in {EvActivate, EvOpenPopup}
           /\ last.id = ListId(k) \/ ChildMissed )
         => LET o == SubMenu_handle(PrePack, k, last.ev)
            IN  /\ resp = o.r
                /\ sub_popup_id = o.m.sub_popup_id
                /\ popups = o.m.popups

\* C17: from counter 0 and label "0", Activate dispatched to the increment
\* button yields one message Incr from the row of buttons and one set_text on
\* the label, with "1"; the counter is 1 and the response is None, not a
\* message.
C17_CounterScenario ==
    ( /\ last.w = "counter"
      /\ last.id = IncrId
      /\ last.ev = EvActivate
      /\ pre.counter = 0
      /\ pre.display = <<"0">> )
    => /\ calls = << <<"msg", ButtonsId, "Incr">>, <<"set_text", DisplayId, <<"1">>>> >>
       /\ counter = 1
       /\ display = <<"1">>
       /\ resp = RNone

\* the increment button was activated at 0
C17_Witness ==
    /\ last.w = "counter"
    /\ last.id = IncrId
    /\ last.ev = EvActivate
    /\ pre.counter = 0
    /\ counter = 1
    /\ display = <<"1">>

SyncRan == last.w \in SyncWindows
Triggered == Called(<<"trigger_update", SyncHandle, 0>>)
Delivered == SyncRan /\ last.ev = EvHandleUpdate
Owed(w) == \E i \in DOMAIN pending : w \in pending[i].todo

\* C18: a trigger_update issued while a window handles a button message is
\* owed to every registered widget, that of the triggering window included;
\* no event from outside is dispatched while an update is owed; and once
\* none is owed, the label of every widget registered when the update was
\* triggered shows the current COUNTER, so with both windows registered both
\* labels show the same value.
C18_UpdateBroadcast ==
    /\ (SyncRan /\ Triggered)
       => /\ pending # <<>>
          /\ pending[Len(pending)].todo = registered
          /\ last.w \in pending[Len(pending)].todo
    /\ (SyncRan /\ ~Delivered) => pre.pending = <<>>
    /\ pending = <<>>
       => \A w \in registered \ since_trigger : texts[w] = i32_to_string(COUNTER)

\* both windows were registered, a button changed COUNTER, and the last of
\* the two deliveries has just been made
C18_Witness ==
    /\ Delivered
    /\ registered = SyncWindows
    /\ since_trigger = {}
    /\ pending = <<>>
    /\ pre.pending # <<>>
    /\ COUNTER # 0
    /\ \A w \in SyncWindows : texts[w] = i32_to_string(COUNTER)

\* C19: the dispatch that calls trigger_update runs no HandleUpdate handler:
\* it calls no set_text and leaves every label as it was, the update being
\* owed when it ends; a label changes only in a delivery, which starts when
\* the loop has taken the response of the dispatch before it, and every
\* delivery is made before the next event from outside is dispatched.
C19_TriggerDeferred ==
    /\ (SyncRan /\ Triggered)
       => /\ ~Delivered
          /\ CallsOf("set_text") = {}
          /\ texts = pre.texts
          /\ \A w \in registered : Owed(w)
    /\ (SyncRan /\ texts # pre.texts) => Delivered /\ ~Triggered
    /\ Delivered => pre.pending # <<>> /\ last.w \in pre.pending[1].todo
    /\ (SyncRan /\ ~Delivered) => ~\E w \in SyncWindows : \E i \in DOMAIN pre.pending : w \in pre.pending[i].todo

\* a button of a registered window changed COUNTER: its own label is stale
\* when handle_button returns
C19_Witness ==
    /\ SyncRan
    /\ Triggered
    /\ registered = SyncWindows
    /\ COUNTER # pre.COUNTER
    /\ texts = pre.texts
    /\ texts[last.w] # i32_to_string(COUNTER)

\* C20: a widget registered after the last trigger_update is owed no update
\* and has received none: its label is still the initial "0", whatever
\* COUNTER is; a delivery is made only to a widget that was registered when
\* the update was triggered.
C20_NoReplay ==
    /\ \A w \in since_trigger : ~Owed(w) /\ texts[w] = <<"0">>
    /\ Delivered => last.w \notin since_trigger /\ last.w \in pre.pending[1].todo

\* a window was added after an update had been broadcast to the other one
C20_Witness ==
    /\ last = Idle
    /\ pending = <<>>
    /\ COUNTER # 0
    /\ \E w \in registered, v \in registered :
        /\ w \in since_trigger
        /\ v \notin since_trigger
        /\ texts[v] = i32_to_string(COUNTER)
        /\ texts[w] = <<"0">>

\* the next PressStart of `source` on a header of the bar, or on the button,
\* is granted the grab
GrantedNext(o, id, source) ==
    \E i \in DOMAIN o.m.calls : o.m.calls[i] = <<"request_grab", id, source, TRUE>>

\* C21: once the PressEnd of a grabbed source has been dispatched to the
\* menu widget holding the grab, the source has no grab, whatever the handler
\* did; a PressStart of that source, if primary, on a header of the bar or on
\* the button is then granted the grab.
C21_PressEndReleases ==
    ((BarRan \/ ButtonRan) /\ last.ev.kind = "PressEnd")
    => /\ ~HasGrab(grab, last.ev.source)
       /\ (is_primary(last.ev.source) /\ BarId \notin disabled)
          => \A k \in Menus :
                GrantedNext(MenuBar_send(Pack(<<>>), BarId,
                                Ev("PressStart", last.ev.source, SubId(k), "bar")),
                            BarId, last.ev.source)
       /\ (is_primary(last.ev.source) /\ ButtonId \notin disabled)
          => GrantedNext(MenuButton_send(Pack(<<>>), ButtonId,
                             Ev("PressStart", last.ev.source, ButtonId, "button")),
                         ButtonId, last.ev.source)

\* the bar held the grab of the primary source and its handler left a menu
\* open on the release
C21_Witness ==
    /\ BarRan
    /\ last.ev.kind = "PressEnd"
    /\ is_primary(last.ev.source)
    /\ \E x \in pre.grab : x.source = last.ev.source /\ x.id = BarId
    /\ ~HasGrab(grab, last.ev.source)
    /\ OpenMenus # {}

\* C22: resize returns only on a window value on which configure_widgets has
\* run; on a value never configured, a fresh clone of a configured window
\* included, it panics.
C22_ResizeNeedsConfigure ==
    last.w = "resize"
    => /\ panic = "" => made[last.id].configured
       /\ ~made[last.id].configured => panic # ""

\* the clone of a configured window was resized, and resize panicked
C22_Witness ==
    /\ last.w = "resize"
    /\ made[last.id].by = "clone"
    /\ made[last.id].of_configured
    /\ ~made[last.id].configured
    /\ panic # ""

\* the child's answer to the event the window was given
ChildAnswer == [type |-> calls[1][2], value |-> calls[1][3]]

\* C23: SimpleWindow::handle returns Close when the child's response
\* converts to Close, as that of action_close does, and never returns Close
\* when the child's response was not Close.
C23_CloseBubbles ==
    last.w = "handle"
    => /\ resp = Response_from(ChildAnswer)
       /\ ChildAnswer = action_close => resp.kind = "Close"
       /\ resp.kind = "Close" => ChildAnswer.value = "Close"

\* the child answered as action_close does
C23_Witness ==
    /\ last.w = "handle"
    /\ calls = << <<"w.handle", "Response", "Close">> >>
    /\ resp.kind = "Close"

\* a press event of kind `kind` on the header of submenu k, inside the bar,
\* was handled by the bar
OnHeader(kind, k) ==
    /\ BarRan
    /\ last.ev.kind = kind
    /\ last.ev.id = SubId(k)
    /\ BarRectContains(last.ev.coord)

\* C24: a primary PressStart on a bar header whose grab is granted opens a
\* closed submenu at once and sets `opening`, and the PressEnd on the same
\* header that follows leaves it open; on the header of an open submenu the
\* PressStart leaves `opening` false and the PressEnd closes the submenu.
C24_BarClick ==
    \A k \in Menus :
        /\ (OnHeader("PressStart", k) /\ is_primary(last.ev.source) /\ Granted(BarId))
           => IF WasOpen(k)
              THEN ~bar_opening /\ sub_popup_id[k] = pre.sub_popup_id[k]
              ELSE /\ bar_opening
                   /\ sub_popup_id[k] # NoWin
                   /\ Called(<<"add_popup", sub_popup_id[k], ListId(k), SubId(k)>>)
        /\ (OnHeader("PressEnd", k) /\ prev.w = "bar" /\ prev.id = SubId(k) /\ prev.granted)
           => IF prev.open
              THEN sub_popup_id[k] = NoWin /\ ~HasPopupOf(popups, SubId(k))
              ELSE sub_popup_id[k] # NoWin /\ popups = pre.popups

\* a click on the header of a closed submenu has left it open
C24_Witness ==
    \E k \in Menus :
        /\ OnHeader("PressEnd", k)
        /\ prev.w = "bar" /\ prev.id = SubId(k) /\ prev.granted /\ ~prev.open
        /\ sub_popup_id[k] # NoWin

\* a click on the header of an open submenu has closed it
C24_WitnessOpen ==
    \E k \in Menus :
        /\ OnHeader("PressEnd", k)
        /\ prev.w = "bar" /\ prev.id = SubId(k) /\ prev.granted /\ prev.open
        /\ sub_popup_id[k] = NoWin

\* the bar handled a PressEnd whose end_id is None or outside its subtree
BarReleasedElsewhere ==
    /\ BarRan
    /\ last.ev.kind = "PressEnd"
    /\ last.ev.id = NoId \/ ~BarIsAncestorOf(last.ev.id)

\* C25: after the bar has handled a PressEnd whose end_id is None or not a
\* descendant of the bar, every submenu is closed and no popup whose parent
\* is a submenu of the bar is left on the popup stack.
C25_ReleaseElsewhereClosesAll ==
    BarReleasedElsewhere
    => /\ \A k \in Menus : sub_popup_id[k] = NoWin
       /\ \A k \in Menus : ~HasPopupOf(popups, SubId(k))
       /\ resp = RNone

\* such a release has closed every menu that was open
C25_Witness ==
    /\ BarReleasedElsewhere
    /\ \A k \in Menus : WasOpen(k) /\ HasPopupOf(pre.popups, SubId(k))
    /\ OpenMenus = {}
    /\ popups = <<>>

\* the first thing the dispatch did was to offer the event to the content
\* widget it was addressed to
OfferedToChild ==
    /\ calls # <<>>
    /\ calls[1][1] = "child_send"
    /\ calls[1][2] = last.id
    /\ calls[1][3] = last.ev.kind

\* the same of the outcome o of a send of ev to id, the child answering a
Offered(o, id, ev, a) ==
    o.m.calls # <<>> /\ o.m.calls[1] = <<"child_send", id, ev.kind, a>>

\* the content widgets: those that are no menu widget or list of menu.rs
Content == MenuWidgets \ SelfHandled
\* no disabled submenu lies between the bar and the widget
Reachable(id) == \A k \in Menus : id \in SubtreeOf[SubId(k)] => SubId(k) \notin disabled

\* C26: send routes by id.  For every id in the subtree of an enabled
\* MenuButton, SubMenu or MenuBar, the event goes to the child when the id is
\* in the child's subtree (a content widget there is consulted first and with
\* that very event; a list claims nothing for itself), and it goes to the
\* widget's own handler, with no child consulted before, when the id is the
\* widget's own.
C26_RoutingById ==
    /\ (last = Idle /\ ButtonId \notin disabled)
       => \A id \in SubtreeOf[ButtonId] : \A ev \in SentEvents(id), a \in Answers :
            LET o == MenuButton_send(Pack(<<a>>), id, ev)
            IN  IF id \in SubtreeOf[PopupId]
                THEN Offered(o, id, ev, a) /\ o.r = Answer(a, ev)
                ELSE id = ButtonId /\ o = MenuButton_handle(Pack(<<a>>), ev)
    /\ (last = Idle)
       => \A k \in Menus : \A id \in SubtreeOf[SubId(k)] : \A ev \in SentEvents(id), a \in Answers :
            SubId(k) \notin disabled =>
            LET o == SubMenu_send(Pack(<<a>>), k, id, ev)
            IN  IF id \in SubtreeOf[ListId(k)]
                THEN IF id \in Content
                     THEN Offered(o, id, ev, a) /\ o.r = Answer(a, ev)
                     ELSE o = Out(Pack(<<a>>), Unhandled(ev))
                ELSE id = SubId(k) /\ o = SubMenu_handle(Pack(<<a>>), k, ev)
    /\ (last = Idle /\ BarId \notin disabled)
       => \A id \in SubtreeOf[BarId] : \A ev \in SentEvents(id), a \in Answers :
            LET o == MenuBar_send(Pack(<<a>>), id, ev)
                c == List_send(Pack(<<a>>), id, ev)
            IN  IF id \in SubtreeOf[BarListId]
                THEN /\ o = IF c.r.kind = "Unhandled" THEN MenuBar_handle(c.m, c.r.ev) ELSE c
                     /\ (id \in Content /\ Reachable(id)) => Offered(o, id, ev, a)
                ELSE id = BarId /\ o = MenuBar_handle(Pack(<<a>>), ev)
    /\ (BarRan \/ ButtonRan)
       => (OfferedToChild <=> (last.id \in Content /\ Reachable(last.id)))

\* an event addressed to an item of a submenu was offered to the item first
C26_Witness ==
    /\ BarRan
    /\ last.id \in Content
    /\ OfferedToChild
    /\ resp.kind = "None"

\* one addressed to a closed submenu was handled by the submenu, which opened
C26_WitnessOwn ==
    \E k \in Menus :
        /\ BarRan
        /\ last.id = SubId(k)
        /\ last.ev = EvActivate
        /\ ~WasOpen(k)
        /\ calls = << <<"add_popup", sub_popup_id[k], ListId(k), SubId(k)>> >>

\* the popups of a stack whose parent is the widget
PopupsOf(stack, parent) == {i \in DOMAIN stack : stack[i].parent = parent}

\* the widget's popup_id, its popup child and the stack agree: None and no
\* popup of the widget, or Some(w) and exactly one, with window id w
Booked(popup_id, child, parent) ==
    IF popup_id = NoWin
    THEN PopupsOf(popups, parent) = {}
    ELSE \E i \in DOMAIN popups :
            /\ PopupsOf(popups, parent) = {i}
            /\ popups[i] = [win |-> popup_id, id |-> child, parent |-> parent]

\* the window id the widget holds after a dispatch in which it called
\* add_popup is the one the last add_popup for it returned
Returned(popup_id, parent) ==
    \A i \in CallsOf("add_popup") :
        (calls[i][4] = parent /\ \A j \in CallsOf("add_popup") : calls[j][4] = parent => j <= i)
        => \/ popup_id = calls[i][2]
           \/ \E j \in CallsOf("close_window") : j > i /\ calls[j][2] = calls[i][2]

\* C27: MenuButton and every SubMenu hold Some(w) in popup_id exactly when
\* one popup whose parent is the widget is on the popup stack, w being the
\* window id add_popup returned for it; no widget has two popups on the
\* stack; open_menu on an open menu and close_menu on a closed one change
\* nothing.
C27_PopupBookkeeping ==
    /\ Booked(btn_popup_id, PopupId, ButtonId)
    /\ Returned(btn_popup_id, ButtonId)
    /\ \A k \in Menus :
        /\ Booked(sub_popup_id[k], ListId(k), SubId(k))
        /\ Returned(sub_popup_id[k], SubId(k))
        /\ IF sub_popup_id[k] # NoWin
           THEN SubMenu_open_menu(Pack(<<>>), k) = Pack(<<>>)
           ELSE SubMenu_close_menu(Pack(<<>>), k) = Pack(<<>>)
    /\ IF btn_popup_id # NoWin
       THEN MenuButton_open_menu(Pack(<<>>)) = Pack(<<>>)
       ELSE MenuButton_close_menu(Pack(<<>>)) = Pack(<<>>)

\* two submenus are open, each with its one popup, the second just added
C27_Witness ==
    /\ BarRan
    /\ Cardinality(OpenMenus) = 2
    /\ Len(popups) = 2
    /\ \E k \in Menus : Called(<<"add_popup", sub_popup_id[k], ListId(k), SubId(k)>>)

\* the button's menu is open, with its one popup
C27_WitnessButton ==
    /\ ButtonRan
    /\ Called(<<"add_popup", btn_popup_id, PopupId, ButtonId>>)
    /\ popups = <<[win |-> btn_popup_id, id |-> PopupId, parent |-> ButtonId]>>

\* C28: whenever a menu widget closes a popup through close_window, that
\* popup is the top, most recently added, entry of the popup stack.
C28_ClosesTopOfStack ==
    (disabled = {} /\ (BarRan \/ ButtonRan))
    => \A i \in CallsOf("close_window") : calls[i][3]

\* the state as the handlers take it, were widget w disabled by now, its
\* content ready to answer with a message
DisabledPack(w) == [Pack(<<"Msg">>) EXCEPT !.disabled = @ \cup {w}]

\* the events tried on a disabled widget, addressed to id
TriedEvents(id, coords) ==
    PlainEvents \cup {EvNone}
    \cup {Ev(kind, s, i, c) : kind \in {"PressStart", "PressMove", "PressEnd"},
                              s \in Sources, i \in {id, OtherId}, c \in coords}

\* the dispatch left the widgets' fields and the Manager's state as they were
NothingChanged ==
    /\ calls = <<>>
    /\ sub_popup_id = pre.sub_popup_id
    /\ bar_opening = pre.bar_opening
    /\ btn_popup_id = pre.btn_popup_id
    /\ btn_opening = pre.btn_opening
    /\ grab = pre.grab
    /\ popups = pre.popups

\* C29: send on a disabled MenuButton, SubMenu or MenuBar returns Unhandled
\* with the very event it was given, consults no child and changes neither
\* the widget's fields nor the Manager's grab, depress target and popup
\* stack, for every event and target id, whatever state the widget was in
\* when it was disabled.
C29_DisabledIsInert ==
    /\ last = Idle
       => /\ \A id \in SubtreeOf[ButtonId] : \A ev \in TriedEvents(id, ButtonCoords) :
                MenuButton_send(DisabledPack(ButtonId), id, ev)
                    = Out(DisabledPack(ButtonId), Unhandled(ev))
          /\ \A k \in Menus : \A id \in SubtreeOf[SubId(k)] : \A ev \in TriedEvents(id, BarCoords) :
                SubMenu_send(DisabledPack(SubId(k)), k, id, ev)
                    = Out(DisabledPack(SubId(k)), Unhandled(ev))
          /\ \A id \in SubtreeOf[BarId] : \A ev \in TriedEvents(id, BarCoords) :
                MenuBar_send(DisabledPack(BarId), id, ev)
                    = Out(DisabledPack(BarId), Unhandled(ev))
    /\ (last.w = "button" /\ ButtonId \in disabled)
       => resp = Unhandled(last.ev) /\ NothingChanged
    /\ (last.w = "bar" /\ BarId \in disabled)
       => resp = Unhandled(last.ev) /\ NothingChanged

\* a press on the disabled button, over it, came back as it was sent
C29_Witness ==
    /\ last.w = "button"
    /\ ButtonId \in disabled
    /\ last.id = ButtonId
    /\ last.ev = Ev("PressStart", "left", ButtonId, "button")
    /\ resp = Unhandled(last.ev)
    /\ grab = {}
    /\ OpenMenus # {}

\* Activate addressed to the disabled bar came back as it was sent
C29_WitnessBar ==
    /\ last.w = "bar"
    /\ BarId \in disabled
    /\ last.ev = EvActivate
    /\ resp = Unhandled(EvActivate)
    /\ btn_popup_id # NoWin

\* the PressStart events of the sources that are not primary, starting on a
\* widget of `tree`
SecondaryPresses(tree, coords) ==
    {ev \in PressEvents("PressStart", tree, coords) : ~is_primary(ev.source) /\ ev.id \in tree}

\* the dispatch was of a PressStart of a source that is not primary, started
\* inside the widget and addressed to the widget itself
SecondaryPressOn(w, tree) ==
    /\ last.ev.kind = "PressStart"
    /\ ~is_primary(last.ev.source)
    /\ last.ev.id \in tree
    /\ last.id = w

\* C30: a PressStart of a source that is not primary, with start_id inside a
\* MenuButton or a MenuBar, requests no grab, leaves `opening`, every
\* popup_id, the grabs with their depress targets and the popup stack as
\* they were, and is answered with None.
C30_SecondaryPressIgnored ==
    /\ last = Idle
       => /\ \A ev \in SecondaryPresses(ButtonTree, ButtonCoords) :
                MenuButton_handle(Pack(<<>>), ev) = Out(Pack(<<>>), RNone)
          /\ \A ev \in SecondaryPresses(BarTree, BarCoords) :
                MenuBar_handle(Pack(<<>>), ev) = Out([Pack(<<>>) EXCEPT !.entered = 1], RNone)
    /\ (ButtonRan /\ SecondaryPressOn(ButtonId, ButtonTree))
       => resp = RNone /\ NothingChanged
    /\ (BarRan /\ SecondaryPressOn(BarId, BarTree))
       => resp = RNone /\ NothingChanged

\* such a press on the header of a closed submenu, while another submenu is
\* open and the primary source is grabbed by the bar: nothing was opened
C30_Witness ==
    /\ BarRan
    /\ SecondaryPressOn(BarId, BarTree)
    /\ last.ev.id \in SubIds
    /\ BarRectContains(last.ev.coord)
    /\ \E k \in Menus : last.ev.id = SubId(k) /\ sub_popup_id[k] = NoWin
    /\ OpenMenus # {}
    /\ GrabbedBy("left", BarId)
    /\ resp = RNone

\* such a press on the closed button: no grab, `opening` as it was
C30_WitnessButton ==
    /\ ButtonRan
    /\ SecondaryPressOn(ButtonId, ButtonTree)
    /\ last.ev.id = ButtonId
    /\ btn_popup_id = NoWin
    /\ grab = {}
    /\ resp = RNone

\* the events the dispatch offered to content widgets after the event it
\* was given
Resent ==
    {calls[i][3] : i \in {j \in CallsOf("child_send") : j > 1 \/ calls[j][3] # last.ev.kind}}

\* C31: the dispatch of one event to a MenuBar ends with a response, having
\* entered MenuBar::handle twice at most; what handle sends on is OpenPopup
\* or Activate only, and the second entry, being given one of these, hands
\* it back unhandled without sending anything.
C31_BarDispatchEnds ==
    BarRan
    => /\ entered <= 2
       /\ resp.kind \in {"None", "Msg", "Unhandled", "Close"}
       /\ Resent \subseteq {"OpenPopup", "Activate"}
       /\ Cardinality(CallsOf("child_send")) <= 2
       /\ entered = 2 => resp \in {Unhandled(EvOpenPopup), Unhandled(EvActivate)}
       /\ last.ev \in PlainEvents => entered <= 1

\* a move over an item that declines OpenPopup: handle was entered for the
\* move and again for the OpenPopup it had sent
C31_Witness ==
    /\ BarRan
    /\ last.ev.kind = "PressMove"
    /\ entered = 2
    /\ resp = Unhandled(EvOpenPopup)
    /\ \E i \in CallsOf("child_send") : calls[i][3] = "OpenPopup" /\ calls[i][4] = "Unhandled"

\* a button of the counter window was activated and its message handled
CounterGot(msg) ==
    /\ last.w = "counter"
    /\ Called(<<"msg", ButtonsId, msg>>)

\* C32: in the counter example the label always shows the decimal digits of
\* `counter`; Decr at 0 leaves the counter at 0, Incr at the greatest usize
\* leaves it there, every other Decr or Incr changes it by one, and
\* handle_button answers None.
C32_CounterSaturates ==
    /\ counter \in 0 .. UsizeMax
    /\ display = to_string(counter)
    /\ CounterGot("Decr")
       => /\ counter = IF pre.counter = 0 THEN 0 ELSE pre.counter - 1
          /\ resp = RNone
    /\ CounterGot("Incr")
       => /\ counter = IF pre.counter = UsizeMax THEN UsizeMax ELSE pre.counter + 1
          /\ resp = RNone

\* Incr was handled at the greatest usize
C32_Witness ==
    /\ CounterGot("Incr")
    /\ pre.counter = UsizeMax
    /\ counter = UsizeMax
    /\ display = to_string(UsizeMax)
    /\ Len(display) > 1

\* Decr was handled at 0
C32_WitnessZero ==
    /\ CounterGot("Decr")
    /\ pre.counter = 0
    /\ display = <<"0">>

\* get or get_mut was called: on which type, with which index, what len()
\* of the widget is, and what came back
Accessed == last.w \in {"get", "get_mut"}
AccessedType == calls[1][2]
AccessedIndex == calls[1][3]
AccessedLen == calls[1][4]
AccessedChild == calls[1][5]

\* C33: get(index) and get_mut(index) return a child exactly when
\* index < len(), and return None, without failing, for every other index;
\* so for SimpleWindow, of len 1, and for MessageBox, of len 0.
C33_ChildAccessAgreesWithLen ==
    Accessed
    => /\ panic = ""
       /\ AccessedChild.some <=> AccessedIndex < AccessedLen
       /\ AccessedLen = IF AccessedType = "SimpleWindow" THEN 1 ELSE 0

\* the same of SimpleWindow alone
C33_SimpleWindowAgrees ==
    (Accessed /\ AccessedType = "SimpleWindow")
    => /\ panic = ""
       /\ AccessedChild.some <=> AccessedIndex < AccessedLen
       /\ AccessedLen = 1

\* find_id was called on the frame: for which coordinate, what the inner
\* widget reports for it, and what came back
FrameAsked == last.w = "find_id"
AskedCoord == calls[1][2]
InnerFound == calls[1][3]
Found == calls[1][4]

\* C34: MenuFrame::find_id returns None exactly when the coordinate is
\* outside the frame's rect; inside it returns the id the inner widget
\* reports for the coordinate when it reports one, and the frame's own id
\* otherwise.
C34_FrameHitTest ==
    FrameAsked
    => /\ Found = NoneId <=> ~Rect_contains(frame.rect, AskedCoord)
       /\ Rect_contains(frame.rect, AskedCoord)
          => Found = IF InnerFound # NoneId THEN InnerFound ELSE FrameId

\* a coordinate in the frame's margin: the inner widget reports nothing and
\* the frame answers for itself
C34_Witness ==
    /\ FrameAsked
    /\ Rect_contains(frame.rect, AskedCoord)
    /\ ~Rect_contains(frame.inner, AskedCoord)
    /\ frame.inner.size # ZERO
    /\ Found = FrameId

\* a coordinate outside the frame for which the inner widget, given a rect
\* that reaches beyond the frame, reports an id
C34_WitnessOutside ==
    /\ FrameAsked
    /\ ~Rect_contains(frame.rect, AskedCoord)
    /\ InnerFound # NoneId
    /\ Found = NoneId

\* a coordinate on the inner widget
C34_WitnessInner ==
    /\ FrameAsked
    /\ InnerFound = FrameLeafId
    /\ Found = FrameLeafId
    /\ frame.m0 # ZERO

\* ---- calculator.rs
\* the key of the press being dispatched and the Calculator before it
KeyPressed == last.w = "calculator"
TheKey == calls[1][2]
Before == calls[1][3]
OpKeys == {"Divide", "Multiply", "Subtract", "Add", "Equals"}
BinaryOps == {"Add", "Subtract", "Multiply", "Divide"}
\* do_op came to its match on self.op: a line was entered, an operation was
\* pending, the state was Ok and the line parsed
MatchEvaluated ==
    /\ KeyPressed
    /\ TheKey \in OpKeys
    /\ Before.line_buf # <<>>
    /\ Before.op # "None"
    /\ Before.state.ok
    /\ from_str(Before.line_buf).ok

\* C35: whatever keys are pressed, do_op never panics with "unexpected op":
\* whenever its match on the pending operation is evaluated, the pending
\* operation is Add, Subtract, Multiply or Divide.
C35_NoUnexpectedOp ==
    /\ panic # "unexpected op"
    /\ calc.op \in BinaryOps \cup {"None"}
    /\ MatchEvaluated => Before.op \in BinaryOps
C35_Witness == MatchEvaluated /\ Before.op = "Divide" /\ calc.state = Ok(F(1, 0))

\* the operation an operator key makes pending
OpOf(key) == IF key = "Equals" THEN "None" ELSE key

\* C36: after an operator key (Divide, Multiply, Subtract, Add, Equals) the
\* line buffer is empty and the pending operation is the key's (None for
\* Equals); when the line buffer was empty before the key, the accumulated
\* state is unchanged.
C36_OperatorKey ==
    (KeyPressed /\ TheKey \in OpKeys) =>
        /\ calc.line_buf = <<>>
        /\ calc.op = OpOf(TheKey)
        /\ Before.line_buf = <<>> => calc.state = Before.state
C36_Witness ==
    /\ KeyPressed /\ TheKey \in OpKeys
    /\ Before.line_buf # <<>>
    /\ Before.op # calc.op
C36_WitnessEmpty ==
    /\ KeyPressed /\ TheKey = "Equals"
    /\ Before.line_buf = <<>>
    /\ Before.op = "Add"
    /\ Before.state # Calculator_new.state

\* C37: an Err state stays Err over every operator key pressed while a
\* binary operation is pending; the state turns from Err to Ok only by Clear
\* or by an operator key that evaluates a parsable line while the pending
\* operation is None.
C37_ErrorIsSticky ==
    KeyPressed =>
        /\ (~Before.state.ok /\ TheKey \in OpKeys /\ Before.op # "None") => ~calc.state.ok
        /\ (~Before.state.ok /\ calc.state.ok) =>
              \/ TheKey = "Clear"
              \/ /\ TheKey \in OpKeys
                 /\ Before.op = "None"
                 /\ Before.line_buf # <<>>
                 /\ from_str(Before.line_buf).ok
C37_Witness ==
    /\ KeyPressed /\ TheKey \in OpKeys
    /\ ~Before.state.ok
    /\ Before.op # "None"
    /\ Before.line_buf # <<>>
    /\ from_str(Before.line_buf).ok
C37_WitnessRecovered ==
    /\ KeyPressed /\ TheKey \in OpKeys
    /\ ~Before.state.ok
    /\ calc.state.ok

\* ---- stopwatch.rs
\* the call being dispatched, its message and the stopwatch before it
WatchCalled(method) == last.w = "stopwatch" /\ calls[1][1] = method
WatchMsg == calls[1][2]
WatchBefore == calls[1][3]
ZeroText == <<"0", ".", "0", "0", "0">>

\* C38: after a Reset message, whether the stopwatch was running or paused,
\* it is stopped (start = None) with zero saved time and displays "0.000",
\* and stays so over every on_tick until the next Start; a Start message
\* turns a stopped stopwatch into a running one and a running one into a
\* stopped one.
C38_ResetStops ==
    /\ fresh => /\ ~watch.start.some
                /\ watch.saved = 0
                /\ watch.display = ZeroText
    /\ (WatchCalled("on_tick") /\ ~WatchBefore.start.some) => watch = WatchBefore
    /\ (WatchCalled("handle_button") /\ WatchMsg = "Start") =>
            watch.start.some = ~WatchBefore.start.some
\* Reset stopped a running stopwatch that showed a time
C38_Witness ==
    /\ WatchCalled("handle_button") /\ WatchMsg = "Reset"
    /\ WatchBefore.start.some
    /\ WatchBefore.display = <<"1", ".", "0", "1", "6">>
\* a tick after the reset of a paused stopwatch, with time gone by
C38_WitnessTick ==
    /\ WatchCalled("on_tick")
    /\ fresh
    /\ now > 1000
    /\ watch.display = ZeroText

====
